---- MODULE Spec2Model ----
(***************************************************************************)
(* The alert-receiver of edge-monitor-app: admission of Grafana webhooks   *)
(* into a bounded channel, a pool of workers that run processJob           *)
(* (collectMetrics, runProviders, analysisStore.add) and readers of        *)
(* analysisStore.list.                                                     *)
(*                                                                         *)
(* A goroutine is a process with a program counter.  Channel operations,   *)
(* mutex operations and the atomic Prometheus counters are single steps;   *)
(* the statements of add and list that touch s.items are separate steps,   *)
(* so that it is the RWMutex of the model, and not the grain of its        *)
(* actions, that keeps readers and writers apart.                          *)
(***************************************************************************)
EXTENDS Integers, Sequences, FiniteSets, TLC

(***************************************************************************)
(* Bounds of the model.                                                    *)
(***************************************************************************)
\* Webhook requests sent to /alerts/grafana in one run.
MaxRequests == 3
\* cfg.WorkerCount ranges over 1..MaxWorkers.
MaxWorkers == 2
\* cfg.JobQueueSize ranges over 0..MaxQueueSize.
MaxQueueSize == 1
\* cfg.MaxStoredAnalyses ranges over 0..MaxStored.
MaxStored == 2
\* len(cfg.Backends) ranges over 0..MaxBackends.
MaxBackends == 2
\* Calls of analysisStore.list (GET /analyses/latest, /healthz) in one run.
MaxListCalls == 2
\* The evidence queries of a configuration.
MaxQueries == 2
\* The clock runs up to MaxClock, and alerts start up to then.
MaxClock == 3
\* len(payload.Alerts) ranges over 0..MaxAlerts.
MaxAlerts == 2
\* cfg.PrometheusLookback ranges up to MaxLookback.
MaxLookback == 1
\* cfg.LLMTimeout ranges up to MaxTimeout.
MaxTimeout == 2
\* len(parsed.Content) ranges over 0..MaxBlocks.
MaxBlocks == 2
\* The gateway monitor makes up to MaxTicks rounds of probes.
MaxTicks == 4
\* The capacity of a Window ranges over 1..MaxWindow.
MaxWindow == 2
\* Add is called up to MaxAdds times.
MaxAdds == 4

VARIABLES
    cfg,        \* Config and the built provider list; fixed after startup
    now,        \* the last reading of time.Now().UnixNano()
    hpc,        \* per request: the position of its handler goroutine
    resp,       \* per request: the HTTP status written (0: none yet)
    hjob,       \* per request: the analysisJob its handler built
    queue,      \* the buffer of s.queue
    recvq,      \* the workers blocked in the receive of s.queue, oldest first
    wpc,        \* per worker: its position in worker/processJob
    wjob,       \* per worker: the job it holds
    record,     \* per worker: processJob's local analysisRecord
    results,    \* per worker: runProviders' results slice
    gpc,        \* per worker and backend index: the fan-out goroutine
    wg,         \* per worker: the WaitGroup counter of runProviders
    items,      \* analysisStore.items
    mu,         \* analysisStore.mu: the writer and the set of readers
    rpc,        \* the position of the reader in list
    out,        \* list's local slice, and what it returned last
    nlist,      \* list calls started
    alertsReceivedTotal,  \* the counter, summed over status
    jobResultsTotal,      \* the counter, by result label
    queueDepthGauge,
    \* History variables: they record what happened and guard nothing.
    dequeues,   \* per request: the number of receives that returned its job
    runs,       \* per request: the number of processJob calls for its job
    added,      \* the requests whose records were passed to add, newest first
    fanlog,     \* per worker: the fan-out goroutines of its job that have
                \* finished, in order: index, slot written, what Complete returned
    lists,      \* what each list call returned, with the number of adds before it
    request,    \* per worker: the request buildLLMRequest returned to runProviders
    prep,       \* a call of applyProviderOverrides: its arguments and what it returned
    issued,     \* per worker: the InstantQuery calls of its job, in order: query and time
    mpc,        \* the position of main
    hin,        \* per request: its method and whether its body decodes
    gtime,      \* per worker and backend: when the call started and ended
    bcall,      \* a return of InvokeModel in bedrockProvider.Complete: the body and what Complete returned
    providerRequestsTotal, \* per provider name: the calls counted as success and as error
    prometheusQueriesTotal, \* per query name: the queries counted as success and as error
    monitor,    \* gateway-monitor: the loop's previous states, its gauges and its counter, and the probes made
    window,     \* jitter-probe: the Window, and the samples passed to Add
    snaps       \* the store's contents at the instants of the list call under way

vars == << cfg, now, hpc, resp, hjob, queue, recvq, wpc, wjob, record, results,
           gpc, wg, items, mu, rpc, out, nlist, alertsReceivedTotal,
           jobResultsTotal, queueDepthGauge, dequeues, runs, added, fanlog,
           lists, request, prep, issued, mpc, hin, gtime, bcall,
           providerRequestsTotal, prometheusQueriesTotal, monitor, window,
           snaps >>

Requests == 1..MaxRequests
Workers == 1..cfg.WorkerCount
Backends == 1..Len(cfg.providers)

(***************************************************************************)
(* Values.                                                                 *)
(***************************************************************************)
\* The zero value of analysisJob.  Times are numbers of clock units, 0 being
\* the zero time.Time; Alerts holds the StartsAt of the payload's alerts.
NoJob == [req |-> 0, ID |-> << 0, << >> >>, GroupKey |-> << >>,
          ReceivedAt |-> 0, Alerts |-> << >>]

\* The zero value of ProviderResult.
\* A nil *StructuredAnalysis.
NoParsed == [present |-> FALSE, Summary |-> "", Confidence |-> 0]

\* The gateway monitor before its first tick: prevGatewayUp and prevWanUp are
\* true, the gauges and the counter are as registered.
MonitorStart ==
    [prevGatewayUp |-> TRUE, prevWanUp |-> TRUE,
     gatewayReachable |-> 0, wanReachable |-> 0,
     failureDomainEventsTotal |-> [full |-> 0, lan |-> 0, wan |-> 0],
     probes |-> << >>]

\* No Window has been made.
NoWindow == [data |-> << >>, pos |-> 0, count |-> 0, cap |-> 0,
             samples |-> << >>]

ZeroResult == [Provider |-> "", Type |-> "", Model |-> "", DurationMS |-> 0,
               Response |-> "", Parsed |-> NoParsed, Error |-> ""]

\* The zero value of analysisRecord.
ZeroRecord == [req |-> 0, ID |-> << 0, << >> >>, Metrics |-> << >>,
               Providers |-> << >>, Error |-> ""]

\* The zero value of LLMRequest.  Prompts are sequences of characters, the
\* temperature is held in tenths.
NoRequest == [built |-> "none", SystemPrompt |-> << >>, UserPrompt |-> << >>,
              MaxTokens |-> 0, Temperature |-> 0]

\* The backends a configuration draws from, in configuration order, as
\* parseBackends leaves them (a MaxTokens or Temperature of 0 has become 900
\* or 0.2): the first has no override of its own, the second overrides all
\* three values, the third has a blank system prompt and negative numbers.
BackendPool ==
    << [Name |-> "b1", Type |-> "openai", Model |-> "m1",
        SystemPrompt |-> << >>, MaxTokens |-> 900, Temperature |-> 2],
       [Name |-> "b2", Type |-> "ollama", Model |-> "m2",
        SystemPrompt |-> << "c" >>, MaxTokens |-> 500, Temperature |-> 7],
       [Name |-> "b3", Type |-> "bedrock", Model |-> "m3",
        SystemPrompt |-> << " " >>, MaxTokens |-> -1, Temperature |-> -1],
       [Name |-> "b4", Type |-> "openai", Model |-> "m4",
        SystemPrompt |-> << >>, MaxTokens |-> 900, Temperature |-> 2] >>

\* The evidence queries a configuration draws from; the description of a
\* query is optional.
QueryPool ==
    << [Name |-> "q1", Description |-> "d1", Query |-> "e1"],
       [Name |-> "q2", Description |-> "", Query |-> "e2"],
       [Name |-> "q3", Description |-> "d3", Query |-> "e3"] >>

Min(a, b) == IF a <= b THEN a ELSE b

\* The label values of the provider and query counters, and a counter that
\* has counted nothing.
ProviderNames == { BackendPool[i].Name : i \in 1..Len(BackendPool) }
QueryNames == { QueryPool[i].Name : i \in 1..Len(QueryPool) }
NoCounts == [success |-> 0, error |-> 0]

RECURSIVE TrimLeft(_)
RECURSIVE TrimRight(_)

\* unicode.IsSpace, for the characters the model's group keys are made of.
IsSpace(c) == c \in {" ", "\n", "\t"}

TrimLeft(s) ==
    IF s # << >> /\ IsSpace(Head(s)) THEN TrimLeft(Tail(s)) ELSE s

TrimRight(s) ==
    IF s # << >> /\ IsSpace(s[Len(s)])
    THEN TrimRight(SubSeq(s, 1, Len(s) - 1))
    ELSE s

\* strings.TrimSpace, on a string held as a sequence of characters.
TrimSpace(s) == TrimRight(TrimLeft(s))

\* The strings.NewReplacer of sanitizeID, applied to one character.
ReplaceChar(c) == IF c \in {"/", ":", " ", "\n", "\t"} THEN "-" ELSE c

sanitizeID(v) ==
    LET t == TrimSpace(v)
        replaced == [i \in 1..Len(t) |-> ReplaceChar(t[i])]
    IN  IF replaced = << >> THEN << "a", "l", "e", "r", "t" >> ELSE replaced

(***************************************************************************)
(* Startup: loadConfig, buildProviders and the server value of main.       *)
(***************************************************************************)
\* A configuration: W workers, a queue of Q, a store of N, B backends and M
\* evidence queries.  loadConfig never leaves PrometheusURL blank (envString
\* falls back to the default), so collectMetrics always queries.
\* envString: the trimmed value of the environment variable, or the default
\* when that is empty.
envString(v, defaultVal) ==
    IF TrimSpace(v) # << >> THEN TrimSpace(v) ELSE defaultVal

\* The default of PROMETHEUS_LOOKBACK, in clock units.
DefaultLookback == MaxLookback

\* The default of LLM_TIMEOUT, in units of the clock.
DefaultLLMTimeout == MaxTimeout

\* The default of PROMETHEUS_URL.
DefaultPrometheusURL == << "h" >>

Config(W, Q, N, B, M) ==
    [WorkerCount |-> W, JobQueueSize |-> Q, MaxStoredAnalyses |-> N,
     PrometheusURL |-> envString(<< >>, DefaultPrometheusURL),
     PrometheusLookback |-> DefaultLookback,
     LLMTimeout |-> DefaultLLMTimeout,
     providers |-> SubSeq(BackendPool, 1, B),
     MetricQueries |-> SubSeq(QueryPool, 1, M)]

\* No request yet.
NoInput == [method |-> "", decodes |-> FALSE]

\* The body InvokeModel returned: its text, whether json.Unmarshal decodes it
\* into the envelope, and the content blocks it then holds.
BodyOf(raw, decodes, content) ==
    [raw |-> raw, decodes |-> decodes, Content |-> content]

\* No return of InvokeModel is looked at on its own.
NoBedrockCall ==
    [Body |-> BodyOf(<< >>, FALSE, << >>), returned |-> FALSE,
     out |-> [err |-> "", text |-> << >>]]

\* No call of applyProviderOverrides is looked at on its own.
NoPrep == [req |-> NoRequest, systemPrompt |-> << >>, maxTokens |-> 0,
           temperature |-> 0, returned |-> FALSE, out |-> NoRequest]

\* The state when main is at mainAt with a configuration of configs; preps
\* are the calls of applyProviderOverrides, and calls the returns of
\* InvokeModel, looked at on their own.
InitAll(configs, preps, calls, mainAt) ==
    /\ cfg \in configs
    /\ now = 1
    /\ hpc = [r \in Requests |-> "idle"]
    /\ resp = [r \in Requests |-> 0]
    /\ hjob = [r \in Requests |-> NoJob]
    /\ queue = << >>
    /\ recvq = << >>
    /\ wpc = [w \in 1..cfg.WorkerCount |->
                IF mainAt \in {"listen", "serving"} THEN "recv" ELSE "unstarted"]
    /\ wjob = [w \in 1..cfg.WorkerCount |-> NoJob]
    /\ record = [w \in 1..cfg.WorkerCount |-> ZeroRecord]
    /\ results = [w \in 1..cfg.WorkerCount |-> << >>]
    /\ gpc = [w \in 1..cfg.WorkerCount |-> << >>]
    /\ wg = [w \in 1..cfg.WorkerCount |-> 0]
    /\ items = << >>
    /\ mu = [writer |-> 0, readers |-> 0]
    /\ rpc = "idle"
    /\ out = << >>
    /\ nlist = 0
    /\ alertsReceivedTotal = 0
    /\ jobResultsTotal = [queue_full |-> 0, processed |-> 0]
    /\ queueDepthGauge = 0
    /\ dequeues = [r \in Requests |-> 0]
    /\ runs = [r \in Requests |-> 0]
    /\ added = << >>
    /\ fanlog = [w \in 1..cfg.WorkerCount |-> << >>]
    /\ snaps = {}
    /\ window = NoWindow
    /\ monitor = MonitorStart
    /\ prometheusQueriesTotal = [n \in QueryNames |-> NoCounts]
    /\ providerRequestsTotal = [n \in ProviderNames |-> NoCounts]
    /\ bcall \in calls
    /\ gtime = [w \in 1..cfg.WorkerCount |-> << >>]
    /\ hin = [r \in Requests |-> NoInput]
    /\ mpc = mainAt
    /\ issued = [w \in 1..cfg.WorkerCount |-> << >>]
    /\ prep \in preps
    /\ request = [w \in 1..cfg.WorkerCount |-> NoRequest]
    /\ lists = << >>

InitState(configs, preps, mainAt) ==
    InitAll(configs, preps, {NoBedrockCall}, mainAt)

\* The state when main has started the workers and the server listens.
InitOf(configs, preps) == InitState(configs, preps, "serving")

InitWith(configs) == InitOf(configs, {NoPrep})

workerVars == << wpc, wjob, record, results, gpc, wg, fanlog >>
storeVars == << items, mu, added >>
readerVars == << rpc, out, nlist, snaps >>
counterVars == << alertsReceivedTotal, jobResultsTotal, queueDepthGauge >>

\* httpServer.ListenAndServe() of main is serving requests.
Listening == mpc = "serving"

\* A panic has left a goroutine that does not recover: the runtime has ended
\* the process, and no goroutine takes a step any more.
Crashed == \E w \in Workers : wpc[w] = "crashed"

(***************************************************************************)
(* Startup: main and buildProviders.                                       *)
(***************************************************************************)
\* A BackendConfig as parseBackends leaves it, with the fields the
\* constructors test beside the overrides.
BackendConfigOf(type, model, apiKeyEnv, region) ==
    [Name |-> type, Type |-> type, Model |-> model, APIKeyEnv |-> apiKeyEnv,
     Region |-> region, SystemPrompt |-> << >>, MaxTokens |-> 900,
     Temperature |-> 2]

\* The backend configurations LLM_BACKENDS_JSON can list: each type with and
\* without a model, and with and without what the type needs beside it.
BackendConfigs ==
    { BackendConfigOf("openai", m, k, "") : m \in {"", "m1"}, k \in {"", "KEY"} }
      \cup { BackendConfigOf("ollama", m, "", "") : m \in {"", "m2"} }
      \cup { BackendConfigOf("bedrock", m, "", g) : m \in {"", "m3"}, g \in {"", "r1"} }
      \cup { BackendConfigOf("vllm", "m4", "", "") }

\* The environment the constructors read: the variable an openai backend
\* names for its key, and AWS_REGION.
Environments ==
    [KEY : { << >>, << " " >>, << "s" >> }, AWS_REGION : { << >>, << "r" >> }]

\* The provider a constructor returns for a backend configuration.
ProviderOf(b) ==
    [Name |-> b.Name, Type |-> b.Type, Model |-> b.Model,
     SystemPrompt |-> b.SystemPrompt, MaxTokens |-> b.MaxTokens,
     Temperature |-> b.Temperature]

\* buildProvider: the constructor of the backend's type, which fails on a
\* missing model, a missing API key (openai) or a missing region (bedrock);
\* an error for any other type.
buildProvider(b, env) ==
    LET apiKey == IF b.APIKeyEnv # "" THEN TrimSpace(env[b.APIKeyEnv]) ELSE << >>
        region == IF b.Region # "" THEN << b.Region >> ELSE TrimSpace(env.AWS_REGION)
        failed == [err |-> TRUE, provider |-> ProviderOf(b)]
        built == [err |-> FALSE, provider |-> ProviderOf(b)]
    IN  CASE b.Type = "openai" ->
               IF b.Model = "" THEN failed
               ELSE IF apiKey = << >> THEN failed ELSE built
          [] b.Type = "ollama" ->
               IF b.Model = "" THEN failed ELSE built
          [] b.Type = "bedrock" ->
               IF b.Model = "" THEN failed
               ELSE IF region = << >> THEN failed ELSE built
          [] OTHER -> failed

\* A buildProviders that does not look at the constructor's error.
BuildFailedIgnored(made) == FALSE

\* err != nil after buildProvider.
BuildFailed(made) == made.err

\* The loop of buildProviders from backend i on: nil and the error as soon
\* as a constructor fails.
RECURSIVE buildFrom(_, _, _, _)
buildFrom(backends, i, env, providers) ==
    IF i > Len(backends)
    THEN [err |-> FALSE, providers |-> providers]
    ELSE LET made == buildProvider(backends[i], env)
         IN  IF BuildFailed(made)
             THEN [err |-> TRUE, providers |-> << >>]
             ELSE buildFrom(backends, i + 1, env, Append(providers, made.provider))

buildProviders(backends, env) == buildFrom(backends, 1, env, << >>)

\* main from buildProviders to the making of the server: os.Exit(1) on an
\* error, otherwise the providers are those built.
mainBuildProviders ==
    /\ mpc = "build"
    /\ LET made == buildProviders(cfg.Backends, cfg.Env)
       IN  IF made.err
           THEN mpc' = "exited" /\ UNCHANGED cfg
           ELSE /\ mpc' = "workers"
                /\ cfg' = [cfg EXCEPT !.providers = made.providers]
    /\ UNCHANGED << hin, gtime, bcall, providerRequestsTotal,
                    prometheusQueriesTotal, monitor, window, issued, prep, request, lists, now, hpc, resp, hjob,
                    queue, recvq, workerVars, storeVars, readerVars,
                    counterVars, dequeues, runs >>

\* go srv.worker(i + 1) for every worker.
mainStartWorkers ==
    /\ mpc = "workers"
    /\ mpc' = "listen"
    /\ wpc' = [w \in Workers |-> "recv"]
    /\ UNCHANGED << cfg, window, monitor, prometheusQueriesTotal, providerRequestsTotal, bcall, gtime, hin, issued, prep, request, lists, now, hpc, resp, hjob,
                    queue, recvq, wjob, record, results, gpc, wg, fanlog,
                    storeVars, readerVars, counterVars, dequeues, runs >>

\* httpServer.ListenAndServe()
mainListen ==
    /\ mpc = "listen"
    /\ mpc' = "serving"
    /\ UNCHANGED << cfg, window, monitor, prometheusQueriesTotal, providerRequestsTotal, bcall, gtime, hin, issued, prep, request, lists, now, hpc, resp, hjob,
                    queue, recvq, workerVars, storeVars, readerVars,
                    counterVars, dequeues, runs >>

(***************************************************************************)
(* Admission: handleGrafanaWebhook.                                        *)
(***************************************************************************)
Methods == {"POST", "GET"}

\* The group keys webhooks carry, as sequences of characters.
GroupKeys == { << "a", "/", "b" >>, << "a", ":", "b" >>, << " " >> }

\* A send that still proceeds when the buffer holds capacity jobs.
CanSendFull == recvq # << >> \/ Len(queue) <= cfg.JobQueueSize

\* The send case of the select can proceed: a worker waits in the receive, or
\* the buffer has room.
CanSend == recvq # << >> \/ Len(queue) < cfg.JobQueueSize

\* A send that always goes through the buffer.
SendBuffered(job) ==
    /\ queue' = Append(queue, job)
    /\ UNCHANGED << recvq, wjob, wpc, dequeues >>

\* s.queue <- job, once the select has chosen it: the job goes straight to the
\* longest waiting worker, and into the buffer when none waits.
Send(job) ==
    IF recvq # << >>
    THEN LET w == Head(recvq)
         IN  /\ recvq' = Tail(recvq)
             /\ wjob' = [wjob EXCEPT ![w] = job]
             /\ wpc' = [wpc EXCEPT ![w] = "dequeued"]
             /\ dequeues' = [dequeues EXCEPT ![job.req] = @ + 1]
             /\ UNCHANGED queue
    ELSE /\ queue' = Append(queue, job)
         /\ UNCHANGED << recvq, wjob, wpc, dequeues >>

\* A rejection that makes room by dropping the oldest buffered job.
RejectEvictOldest(job) ==
    /\ queue' = IF queue = << >> THEN queue ELSE Append(Tail(queue), job)
    /\ UNCHANGED << recvq, wjob, wpc, dequeues >>

\* The default case of the select: the job is dropped.
Reject(job) == UNCHANGED << queue, recvq, wjob, wpc, dequeues >>

\* What a request to /alerts/grafana is made of: its method, whether its body
\* decodes as a GrafanaWebhookPayload, and the payload's group key and alerts.
\* The StartsAt an alert can carry: the zero time, or a time up to MaxClock.
StartTimes == 0..MaxClock

\* The alerts of a payload, each given by its StartsAt.
AlertLists == UNION { [1..n -> StartTimes] : n \in 0..MaxAlerts }

Inputs ==
    [method : Methods, decodes : BOOLEAN, key : GroupKeys, alerts : AlertLists]

\* A handler that takes any method.
MethodAllowedAny(in) == TRUE

\* r.Method == http.MethodPost
MethodAllowed(in) == in.method = "POST"

\* An identifier made of the sanitized group key alone.
JobIDKeyOnly(t, key) == << 0, sanitizeID(key) >>

\* fmt.Sprintf("%d-%s", time.Now().UnixNano(), sanitizeID(payload.GroupKey)),
\* held as the pair of the clock reading and the sanitized key: the number
\* ends at the first "-", so two pairs give the same text only when equal.
JobID(t, key) == << t, sanitizeID(key) >>

\* A handler that counts the request before it looks at it.
ReceivedAtEntry(in, n) == n + 1

\* alertsReceivedTotal after the handler: the increment follows the method
\* check and the decoding, which return before it on a failure, and precedes
\* the select.
Received(in, n) == IF MethodAllowed(in) /\ in.decodes THEN n + 1 ELSE n

\* The handler of request r up to and including its select, for a request
\* drawn from inputs.  Requests are numbered in the order their handlers
\* start.  time.Now() reads the clock one of ticks after its last reading (0:
\* the clock has not moved between two readings).
handleGrafanaWebhook(r, inputs, ticks) ==
    /\ Listening
    /\ ~Crashed
    /\ hpc[r] = "idle"
    /\ IF r = 1 THEN TRUE ELSE hpc[r - 1] # "idle"
    /\ \E in \in inputs, t \in { now + d : d \in ticks } :
         /\ hin' = [hin EXCEPT ![r] = [method |-> in.method,
                                       decodes |-> in.decodes]]
         /\ alertsReceivedTotal' = Received(in, alertsReceivedTotal)
         /\ IF ~MethodAllowed(in)
            THEN /\ resp' = [resp EXCEPT ![r] = 405]
                 /\ hpc' = [hpc EXCEPT ![r] = "done"]
                 /\ UNCHANGED << now, hjob, queue, recvq, wjob, wpc, dequeues,
                                 jobResultsTotal, queueDepthGauge >>
            ELSE IF ~in.decodes
            THEN /\ resp' = [resp EXCEPT ![r] = 400]
                 /\ hpc' = [hpc EXCEPT ![r] = "done"]
                 /\ UNCHANGED << now, hjob, queue, recvq, wjob, wpc, dequeues,
                                 jobResultsTotal, queueDepthGauge >>
            ELSE LET job == [req |-> r, ID |-> JobID(t, in.key),
                             GroupKey |-> in.key, ReceivedAt |-> t,
                             Alerts |-> in.alerts]
                 IN  /\ now' = t
                     /\ hjob' = [hjob EXCEPT ![r] = job]
                     /\ IF CanSend
                        THEN /\ Send(job)
                             /\ hpc' = [hpc EXCEPT ![r] = "queued"]
                             /\ UNCHANGED << resp, jobResultsTotal >>
                        ELSE /\ jobResultsTotal' =
                                   [jobResultsTotal EXCEPT !.queue_full = @ + 1]
                             /\ resp' = [resp EXCEPT ![r] = 503]
                             /\ hpc' = [hpc EXCEPT ![r] = "done"]
                             /\ Reject(job)
                     /\ UNCHANGED queueDepthGauge
    /\ UNCHANGED << cfg, window, monitor, prometheusQueriesTotal, providerRequestsTotal, bcall, gtime, mpc, issued, prep, request, lists, record, results, gpc, wg, fanlog, storeVars,
                    readerVars, runs >>

\* The send case of the select: queueDepthGauge.Inc() and the 202 response.
handlerQueued(r) ==
    /\ ~Crashed
    /\ hpc[r] = "queued"
    /\ queueDepthGauge' = queueDepthGauge + 1
    /\ resp' = [resp EXCEPT ![r] = 202]
    /\ hpc' = [hpc EXCEPT ![r] = "done"]
    /\ UNCHANGED << cfg, window, monitor, prometheusQueriesTotal, providerRequestsTotal, bcall, gtime, hin, mpc, issued, prep, request, lists, now, hjob, queue, recvq, workerVars, storeVars,
                    readerVars, alertsReceivedTotal, jobResultsTotal, dequeues,
                    runs >>

\* Time passes: the next time.Now() reads one unit later.
clockTick ==
    /\ ~Crashed
    /\ now < MaxClock
    /\ now' = now + 1
    /\ UNCHANGED << cfg, window, monitor, prometheusQueriesTotal, providerRequestsTotal, bcall, gtime, hin, mpc, issued, prep, request, lists, hpc, resp, hjob, queue,
                    recvq, workerVars, storeVars, readerVars, counterVars,
                    dequeues, runs >>

(***************************************************************************)
(* The worker pool: worker and processJob.                                 *)
(***************************************************************************)
\* A receive that leaves the job it delivers in the buffer.
RecvRestKeep(q) == q

\* What a receive leaves in the buffer.
RecvRest(q) == Tail(q)

\* A worker that is back at the receive while the fan-out of its job is pending.
AtReceiveEarly(w) == wpc[w] \in {"recv", "wait"}

\* Worker w is at the receive: processJob has returned to the loop of worker.
AtReceive(w) == wpc[w] = "recv"

\* The receive of `for job := range s.queue`: the oldest buffered job, or the
\* worker blocks until a handler hands it one.
workerReceive(w) ==
    /\ AtReceive(w)
    /\ IF queue # << >>
       THEN /\ wjob' = [wjob EXCEPT ![w] = Head(queue)]
            /\ queue' = RecvRest(queue)
            /\ wpc' = [wpc EXCEPT ![w] = "dequeued"]
            /\ dequeues' = [dequeues EXCEPT ![Head(queue).req] = @ + 1]
            /\ UNCHANGED recvq
       ELSE /\ recvq' = Append(recvq, w)
            /\ wpc' = [wpc EXCEPT ![w] = "parked"]
            /\ UNCHANGED << wjob, queue, dequeues >>
    /\ UNCHANGED << cfg, window, monitor, prometheusQueriesTotal, providerRequestsTotal, bcall, gtime, hin, mpc, issued, prep, request, lists, now, hpc, resp, hjob, record, results, gpc, wg,
                    fanlog, storeVars, readerVars, counterVars, runs >>

\* The snapshot collectMetrics appends for query q: InstantQuery's own on
\* success (Series: it carries the result InstantQuery decoded), the name,
\* the description and the expression with the error otherwise.
Snapshot(q, ok) ==
    IF ok
    THEN [Name |-> q.Name, Description |-> q.Description, Query |-> q.Query,
          Series |-> TRUE, Error |-> ""]
    ELSE [Name |-> q.Name, Description |-> q.Description, Query |-> q.Query,
          Series |-> FALSE, Error |-> "query Prometheus"]

\* alert.StartsAt.IsZero()
IsZero(t) == t = 0

\* earliestAlertTime from alert i on, earliest being the result so far.
RECURSIVE earliestFrom(_, _, _)
earliestFrom(alerts, i, earliest) ==
    IF i > Len(alerts)
    THEN earliest
    ELSE earliestFrom(alerts, i + 1,
                      IF ~IsZero(alerts[i]) /\ alerts[i] < earliest
                      THEN alerts[i] ELSE earliest)

\* earliestAlertTime(payload, fallback)
earliestAlertTime(alerts, fallback) == earliestFrom(alerts, 1, fallback)

\* The queryTime of collectMetrics for a job, time.Now() reading t.
QueryTime(job, t) ==
    IF Len(job.Alerts) > 0
    THEN LET shifted == earliestAlertTime(job.Alerts, t) + cfg.PrometheusLookback
         IN  IF shifted > t THEN t ELSE shifted
    ELSE t

\* The calls with what each returned: a snapshot (ok) or an error.
WithOutcomes(calls, oks) ==
    [i \in 1..Len(calls) |->
        [query |-> calls[i].query, time |-> calls[i].time,
         now |-> calls[i].now, ok |-> oks[i]]]

\* The calls of InstantQuery collectMetrics makes for a job, in order: none
\* with a blank Prometheus URL, otherwise one per configured query, all at
\* the job's queryTime.
InstantQueries(job, t) ==
    IF TrimSpace(cfg.PrometheusURL) = << >>
    THEN << >>
    ELSE [i \in 1..Len(cfg.MetricQueries) |->
            [query |-> cfg.MetricQueries[i].Name, time |-> QueryTime(job, t),
             now |-> t]]

\* A loop that leaves out the query whose InstantQuery failed.
OnQueryErrorSkip(snapshots, q) == snapshots

\* The error branch of the loop of collectMetrics: a snapshot with the error
\* is appended and the loop continues.
OnQueryError(snapshots, q) == Append(snapshots, Snapshot(q, FALSE))

\* The loop of collectMetrics from query i on, snapshots being those of the
\* queries before it.
RECURSIVE collectFrom(_, _, _)
collectFrom(i, oks, snapshots) ==
    IF i > Len(cfg.MetricQueries)
    THEN snapshots
    ELSE LET query == cfg.MetricQueries[i]
         IN  collectFrom(i + 1, oks,
                         IF oks[i]
                         THEN Append(snapshots, Snapshot(query, TRUE))
                         ELSE OnQueryError(snapshots, query))

\* collectMetrics: nothing with a blank Prometheus URL; otherwise every
\* configured query is run, in order, and succeeds (oks[i]) or fails.  The
\* error collectMetrics returns is always nil.
collectMetrics(oks) ==
    IF TrimSpace(cfg.PrometheusURL) = << >>
    THEN << >>
    ELSE collectFrom(1, oks, << >>)

\* A call that has not started.
NoTimes == [start |-> 0, end |-> 0]

\* The synthetic results of processJob (no backend is configured) and of
\* runProviders (buildLLMRequest failed).
NoBackendResult ==
    [ZeroResult EXCEPT !.Provider = "none", !.Type = "none",
                       !.Error = "no LLM backends configured"]

PromptErrorResult ==
    [ZeroResult EXCEPT !.Provider = "prompt-builder", !.Type = "internal",
                       !.Error = "marshal prompt payload"]

\* The request buildLLMRequest returns for a job when the payload marshals:
\* the default system prompt, a user prompt made from the job, 900 tokens and
\* a temperature of 0.2.
buildLLMRequest(job) ==
    [built |-> "built", SystemPrompt |-> << "d" >>,
     UserPrompt |-> << "e" >> \o job.ID[2],
     MaxTokens |-> 900, Temperature |-> 2]

\* The zero LLMRequest runProviders holds when buildLLMRequest returned an
\* error.
FailedRequest == [NoRequest EXCEPT !.built = "failed"]

\* A processJob without the check for an empty provider list.
NoProvidersUnchecked == FALSE

\* len(s.providers) == 0
NoProviders == Len(cfg.providers) = 0

\* A runProviders that goes on with the request whatever the error.
PromptFailedIgnored(built) == FALSE

\* The err != nil of runProviders after buildLLMRequest.
PromptFailed(built) == ~built

\* queueDepthGauge.Dec() and processJob up to the fan-out.  The record is
\* filled from the job and the evidence is collected (record.Error stays
\* empty, collectMetrics returning no error).  Then, with no provider, the
\* synthetic result; otherwise runProviders: buildLLMRequest returns a request
\* or an error, and with a request the results slice gets one slot per
\* provider and one goroutine per provider is started.  In the two cases
\* without fan-out processJob goes on to s.store.add: the job is counted as
\* processed.
processJobStep(w) ==
    /\ wpc[w] = "dequeued"
    /\ queueDepthGauge' = queueDepthGauge - 1
    /\ runs' = [runs EXCEPT ![wjob[w].req] = @ + 1]
    /\ \E oks \in [1..Len(cfg.MetricQueries) -> BOOLEAN], built \in BOOLEAN :
         LET rec == [ZeroRecord EXCEPT !.req = wjob[w].req,
                                       !.ID = wjob[w].ID,
                                       !.Metrics = collectMetrics(oks)]
         IN  /\ issued' = [issued EXCEPT ![w] =
                              WithOutcomes(InstantQueries(wjob[w], now), oks)]
             /\ request' = [request EXCEPT ![w] =
                               IF NoProviders THEN NoRequest
                               ELSE IF built THEN buildLLMRequest(wjob[w])
                               ELSE FailedRequest]
             /\ IF NoProviders \/ PromptFailed(built)
                THEN /\ record' = [record EXCEPT ![w] =
                          [rec EXCEPT !.Providers =
                             IF NoProviders
                             THEN << NoBackendResult >>
                             ELSE << PromptErrorResult >>]]
                     /\ jobResultsTotal' =
                          [jobResultsTotal EXCEPT !.processed = @ + 1]
                     /\ wpc' = [wpc EXCEPT ![w] = "add_lock"]
                     /\ UNCHANGED << results, gpc, wg, fanlog, gtime >>
                ELSE /\ record' = [record EXCEPT ![w] = rec]
                     /\ results' = [results EXCEPT ![w] =
                                      [i \in Backends |-> ZeroResult]]
                     /\ gpc' = [gpc EXCEPT ![w] = [i \in Backends |-> "call"]]
                     /\ gtime' = [gtime EXCEPT ![w] =
                                    [i \in Backends |-> NoTimes]]
                     /\ wg' = [wg EXCEPT ![w] = Len(cfg.providers)]
                     /\ fanlog' = [fanlog EXCEPT ![w] = << >>]
                     /\ wpc' = [wpc EXCEPT ![w] = "wait"]
                     /\ UNCHANGED jobResultsTotal
    /\ UNCHANGED << cfg, window, monitor, providerRequestsTotal, bcall, hin, mpc, prep, lists, now, hpc, resp, hjob, queue, recvq, wjob, storeVars,
                    readerVars, alertsReceivedTotal, dequeues >>

\* processJob when the query counter is not looked at.
processJob(w) ==
    /\ processJobStep(w)
    /\ UNCHANGED prometheusQueriesTotal

\* The result label of prometheusQueriesTotal: "error" in the branch of
\* err != nil, "success" after it.
QueryLabel(ok) == IF ok THEN "success" ELSE "error"

\* counter.WithLabelValues(name, label).Inc()
Inc(counter, name, label) == [counter EXCEPT ![name][label] = @ + 1]

\* The Inc calls of the loop of collectMetrics, from call i of calls on.
RECURSIVE CountQueries(_, _, _)
CountQueries(counter, calls, i) ==
    IF i > Len(calls) THEN counter
    ELSE CountQueries(Inc(counter, calls[i].query, QueryLabel(calls[i].ok)),
                      calls, i + 1)

\* processJob with the counting of collectMetrics.
processJobCounting(w) ==
    /\ processJobStep(w)
    /\ prometheusQueriesTotal' =
           CountQueries(prometheusQueriesTotal, issued'[w], 1)

(***************************************************************************)
(* The fan-out of runProviders.                                            *)
(***************************************************************************)
\* What provider.Complete returns: an error, or a response text.
ErrorReplies ==
    { [err |-> e, text |-> ""] :
        e \in {"context deadline exceeded", "request failed", "status 500"} }

TextGood == "{\"summary\":\"x\",\"confidence\":0.5}"
TextNoSummary == "{\"summary\":\"\"}"
TextPlain == "gateway looks down"
TextOverconfident == "{\"summary\":\"x\",\"confidence\":7}"
TextNegative == "{\"summary\":\"x\",\"confidence\":-0.5}"

TextReplies ==
    { [err |-> "", text |-> t] : t \in {TextGood, TextNoSummary, TextPlain} }

Replies == ErrorReplies \cup TextReplies

\* The message contents a backend can answer with a status below 300: the
\* texts above, an empty content and a blank one.
ContentBlank == " "

Contents == {TextGood, TextNoSummary, TextPlain, "", ContentBlank}

\* strings.TrimSpace on the contents of the model, of which only the blank
\* one has space at its ends.
TrimContent(content) == IF content = ContentBlank THEN "" ELSE content

\* What Complete returns for an answer with a status below 300 and the
\* message content given: the trimmed content and no error.
CompleteContent(content) == [err |-> "", text |-> TrimContent(content)]

\* Everything Complete can return.
AllReplies == ErrorReplies \cup { CompleteContent(c) : c \in Contents }

\* json.Unmarshal of a response text into a StructuredAnalysis, on the texts
\* of the model; the confidence is held in tenths.
UnmarshalStructured(text) ==
    CASE text = TextGood ->
           [ok |-> TRUE, Summary |-> "x", Confidence |-> 5]
      [] text = TextNoSummary ->
           [ok |-> TRUE, Summary |-> "", Confidence |-> 0]
      [] text = TextOverconfident ->
           [ok |-> TRUE, Summary |-> "x", Confidence |-> 70]
      [] text = TextNegative ->
           [ok |-> TRUE, Summary |-> "x", Confidence |-> -5]
      [] OTHER -> [ok |-> FALSE, Summary |-> "", Confidence |-> 0]

\* A goroutine whose call is cancelled as soon as a sibling's call has failed.
ProviderResultSharedCtx(p, reply) ==
    LET base == [ZeroResult EXCEPT !.Provider = p.Name, !.Type = p.Type,
                                   !.Model = p.Model]
    IN  IF reply.err # ""
        THEN [base EXCEPT !.Error = reply.err]
        ELSE IF \E w \in Workers : \E i \in 1..Len(results[w]) :
                   results[w][i].Error # ""
        THEN [base EXCEPT !.Error = "context canceled"]
        ELSE [base EXCEPT !.Response = reply.text]

\* A goroutine that attaches whatever parses as a StructuredAnalysis.
ParsedAttachedAnyJSON(parsed) == parsed.ok

\* The condition under which result.Parsed is set: json.Unmarshal returned no
\* error and the summary is not empty.
ParsedAttached(parsed) == parsed.ok /\ parsed.Summary # ""

\* The ProviderResult a goroutine builds for provider p from what Complete
\* returned (the duration is left out).
ProviderResultOf(p, reply) ==
    LET base == [ZeroResult EXCEPT !.Provider = p.Name, !.Type = p.Type,
                                   !.Model = p.Model]
        parsed == UnmarshalStructured(reply.text)
    IN  IF reply.err # ""
        THEN [base EXCEPT !.Error = reply.err]
        ELSE [base EXCEPT
                !.Response = reply.text,
                !.Parsed = IF ParsedAttached(parsed)
                           THEN [present |-> TRUE, Summary |-> parsed.Summary,
                                 Confidence |-> parsed.Confidence]
                           ELSE NoParsed]

\* strings.Join(parts, "\n"), on strings held as sequences of characters.
RECURSIVE Join(_)
Join(parts) ==
    IF parts = << >> THEN << >>
    ELSE IF Len(parts) = 1 THEN parts[1]
    ELSE parts[1] \o << "\n" >> \o Join(Tail(parts))

\* The loop of bedrockProvider.Complete over parsed.Content: the texts of the
\* blocks whose text is not empty, in order; the type of a block is not
\* looked at.
RECURSIVE Parts(_)
Parts(content) ==
    IF content = << >> THEN << >>
    ELSE IF Head(content).Text # << >>
         THEN << Head(content).Text >> \o Parts(Tail(content))
         ELSE Parts(Tail(content))

\* An adapter that fails when it cannot unwrap the envelope, as the other
\* two adapters do.
FallbackError(body) == [err |-> "decode bedrock response", text |-> << >>]

\* return strings.TrimSpace(string(output.Body)), nil
Fallback(body) == [err |-> "", text |-> TrimSpace(body.raw)]

\* bedrockProvider.Complete from the return of InvokeModel on: the trimmed
\* raw body when it does not decode into the envelope or no block has a text,
\* otherwise the texts joined by newlines, trimmed; never an error.
bedrockComplete(body) ==
    IF ~body.decodes THEN Fallback(body)
    ELSE LET parts == Parts(body.Content)
         IN  IF Len(parts) = 0 THEN Fallback(body)
             ELSE [err |-> "", text |-> TrimSpace(Join(parts))]

\* bedrockProvider.Complete returns for the body held in bcall.
bedrockCompleteCall ==
    /\ ~bcall.returned
    /\ bcall' = [bcall EXCEPT !.returned = TRUE,
                              !.out = bedrockComplete(bcall.Body)]
    /\ UNCHANGED << cfg, window, monitor, prometheusQueriesTotal, providerRequestsTotal, gtime, hin, mpc, issued, prep, request, lists, now, hpc, resp, hjob,
                    queue, recvq, workerVars, storeVars, readerVars,
                    counterVars, dequeues, runs >>

\* An applyProviderOverrides that takes every override as it is.
applyProviderOverridesAlways(req, systemPrompt, maxTokens, temperature) ==
    [req EXCEPT !.SystemPrompt = systemPrompt, !.MaxTokens = maxTokens,
                !.Temperature = temperature]

\* applyProviderOverrides: an override replaces the caller's value when it is
\* not blank (the system prompt) or positive (the numbers).
applyProviderOverrides(req, systemPrompt, maxTokens, temperature) ==
    [req EXCEPT
       !.SystemPrompt = IF TrimSpace(systemPrompt) # << >> THEN systemPrompt ELSE @,
       !.MaxTokens = IF maxTokens > 0 THEN maxTokens ELSE @,
       !.Temperature = IF temperature > 0 THEN temperature ELSE @]

\* A call of applyProviderOverrides with the arguments held in prep.
applyProviderOverridesCall ==
    /\ ~prep.returned
    /\ prep' = [prep EXCEPT
                  !.returned = TRUE,
                  !.out = applyProviderOverrides(prep.req, prep.systemPrompt,
                                                 prep.maxTokens, prep.temperature)]
    /\ UNCHANGED << cfg, window, monitor, prometheusQueriesTotal, providerRequestsTotal, bcall, gtime, hin, mpc, issued, request, lists, now, hpc, resp, hjob, queue, recvq,
                    workerVars, storeVars, readerVars, counterVars, dequeues,
                    runs >>

\* provider.PrepareRequest(request) for provider p.
PrepareRequest(p, req) ==
    applyProviderOverrides(req, p.SystemPrompt, p.MaxTokens, p.Temperature)

\* A PrepareRequest that works on the request of runProviders itself.
RequestPreparedInPlace(base, derived) == derived

\* The request of runProviders after a goroutine's PrepareRequest: the
\* LLMRequest is passed by value and the derived one is returned.
RequestAfterPrepare(base, derived) == base

\* A goroutine that writes the next free slot, in completion order.
SlotByCompletion(w, idx) == Len(cfg.providers) - wg[w] + 1

\* The slot of results the goroutine of index idx writes.
SlotOf(w, idx) == idx

\* A goroutine that calls Complete again when it returned an error.
AfterCompleteRetry(reply) == IF reply.err # "" THEN "call" ELSE "done"

\* Where the goroutine is after Complete has returned: it writes the result
\* and returns, running the deferred wg.Done, whatever Complete returned;
\* there is no loop around the call.
AfterComplete(reply) == "done"

\* time.Since(start) at the return of the call: nothing when the goroutine
\* is taken as one step.
Since(w, i, at) == IF at = "running" THEN now - gtime[w][i].start ELSE 0

\* A goroutine of worker w's fan-out for provider i, at the position given,
\* gets the return of its call: the request was prepared for the provider,
\* Complete was called with it and returns one of replies, the result is
\* written to its slot, and the deferred wg.Done runs.
goroutineReturns(w, i, at, replies) ==
    /\ wpc[w] = "wait"
    /\ gpc[w][i] = at
    /\ \E reply \in replies :
         /\ results' = [results EXCEPT ![w][SlotOf(w, i)] =
                          [ProviderResultOf(cfg.providers[i], reply) EXCEPT
                              !.DurationMS = Since(w, i, at)]]
         /\ fanlog' = [fanlog EXCEPT ![w] =
                         Append(@, [idx |-> i, slot |-> SlotOf(w, i),
                                    reply |-> reply,
                                    req |-> PrepareRequest(cfg.providers[i],
                                                           request[w])])]
         /\ wg' = [wg EXCEPT ![w] =
                     IF AfterComplete(reply) = "done" THEN @ - 1 ELSE @]
         /\ gpc' = [gpc EXCEPT ![w][i] = AfterComplete(reply)]
    /\ request' = [request EXCEPT ![w] =
                     RequestAfterPrepare(@, PrepareRequest(cfg.providers[i], @))]
    /\ UNCHANGED << cfg, window, monitor, prometheusQueriesTotal, bcall, hin, mpc, issued, prep, lists, now, hpc, resp, hjob, queue, recvq, wpc, wjob, record,
                    storeVars, readerVars, counterVars, dequeues, runs >>

\* The goroutine of worker w's fan-out for provider i, from its start to its
\* return, when the time the call takes is not looked at.
providerGoroutine(w, i, replies) ==
    /\ goroutineReturns(w, i, "call", replies)
    /\ UNCHANGED << gtime, providerRequestsTotal >>

\* A context without a deadline.
DeadlineNever(start) == start + MaxClock + 1

\* The deadline of the context a goroutine makes at its start:
\* context.WithTimeout(context.Background(), s.cfg.LLMTimeout).
Deadline(start) == start + cfg.LLMTimeout

\* The context of the running call of worker w to provider i is done.
Expired(w, i) == now >= Deadline(gtime[w][i].start)

\* The error of a call whose context reached its deadline.
DeadlineReply == [err |-> "context deadline exceeded", text |-> ""]

\* http.Client{Timeout: 60 * time.Second} of the openai and the ollama
\* adapters, in units of the clock (one unit is 30 seconds); the bedrock
\* adapter calls the SDK and has no such client.
ClientTimeout == 2

HasClientTimeout(p) == p.Type \in {"openai", "ollama"}

\* An HTTP client without a timeout of its own.
ClientExpiredNever(w, i) == FALSE

\* The HTTP client of the running call of worker w to provider i has reached
\* its timeout.
ClientExpired(w, i) ==
    /\ HasClientTimeout(cfg.providers[i])
    /\ now >= gtime[w][i].start + ClientTimeout

\* The error of a call stopped by the timeout of its HTTP client.
ClientTimeoutReply == [err |-> "Client.Timeout exceeded", text |-> ""]

\* A goroutine that counts every call as a success.
ProviderLabelAlwaysSuccess(reply) == "success"

\* The result label of providerRequestsTotal: "error" in the branch of
\* err != nil, "success" after it.
ProviderLabel(reply) == IF reply.err # "" THEN "error" ELSE "success"

\* The goroutine for provider i starts: it reads the time, makes its context
\* and calls Complete.
providerStart(w, i) ==
    /\ wpc[w] = "wait"
    /\ gpc[w][i] = "call"
    /\ gpc' = [gpc EXCEPT ![w][i] = "running"]
    /\ gtime' = [gtime EXCEPT ![w][i].start = now]
    /\ UNCHANGED << cfg, window, monitor, prometheusQueriesTotal, providerRequestsTotal, bcall, hin, mpc, issued, prep, request, lists, now, hpc, resp, hjob, queue, recvq, wpc, wjob, record,
                    results, wg, fanlog, storeVars, readerVars, counterVars,
                    dequeues, runs >>

\* The running call to provider i returns: with the error of the deadline
\* when its context is done, with the error of the client's timeout when
\* that is reached before the deadline (a client whose request carries an
\* earlier deadline leaves the timeout to the context), and with any other of
\* replies before that.
providerReturn(w, i, replies) ==
    /\ goroutineReturns(w, i, "running",
                        IF Expired(w, i)
                        THEN {DeadlineReply}
                        ELSE IF ClientExpired(w, i)
                        THEN {ClientTimeoutReply}
                        ELSE replies \ {DeadlineReply})
    /\ gtime' = [gtime EXCEPT ![w][i].end = now]
    /\ providerRequestsTotal' =
           Inc(providerRequestsTotal, cfg.providers[i].Name,
               ProviderLabel(fanlog'[w][Len(fanlog'[w])].reply))

\* Time passes while calls run: Complete hands its context to the HTTP
\* request (or to the SDK), which returns when the context is done or the
\* client's timeout is reached, so a call in that state returns before the
\* clock reads the next unit.
callTick ==
    /\ clockTick
    /\ \A w \in Workers : \A i \in Backends :
         wpc[w] = "wait" /\ gpc[w][i] = "running" =>
             ~Expired(w, i) /\ ~ClientExpired(w, i)

\* A wait that returns at the first successful call.
WaitFirstSuccess(w) ==
    \E i \in Backends : gpc[w][i] = "done" /\ results[w][i].Error = ""

\* A wait that returns only when every call has succeeded.
WaitAllSucceeded(w) ==
    wg[w] = 0 /\ \A i \in Backends : results[w][i].Error = ""

\* wg.Wait() returns.
WaitDone(w) == wg[w] = 0

\* wg.Wait(), the return of runProviders into record.Providers, and processJob
\* up to s.store.add: the job is counted as processed.
runProvidersWait(w) ==
    /\ wpc[w] = "wait"
    /\ WaitDone(w)
    /\ record' = [record EXCEPT ![w].Providers = results[w]]
    /\ jobResultsTotal' = [jobResultsTotal EXCEPT !.processed = @ + 1]
    /\ wpc' = [wpc EXCEPT ![w] = "add_lock"]
    /\ UNCHANGED << cfg, window, monitor, prometheusQueriesTotal, providerRequestsTotal, bcall, gtime, hin, mpc, issued, prep, request, lists, now, hpc, resp, hjob, queue, recvq, wjob, results, gpc,
                    wg, fanlog, storeVars, readerVars,
                    alertsReceivedTotal, queueDepthGauge, dequeues, runs >>

(***************************************************************************)
(* The record store: analysisStore.add and analysisStore.list.             *)
(***************************************************************************)
\* s.mu.Lock() can return: no writer and no reader holds the mutex.
CanLock == mu.writer = 0 /\ mu.readers = 0

\* A read lock that does not wait for a writer.
CanRLockAlways == TRUE

\* s.mu.RLock() can return: no writer holds the mutex.
CanRLock == mu.writer = 0

\* An add that puts the record at the end of the slice.
PrependLast(rec, s) == Append(s, rec)

\* append([]analysisRecord{record}, s.items...)
Prepend(rec, s) == << rec >> \o s

\* s.mu.Lock() of add, and under it
\* s.items = append([]analysisRecord{record}, s.items...)
addLock(w) ==
    /\ wpc[w] = "add_lock"
    /\ CanLock
    /\ mu' = [mu EXCEPT !.writer = w]
    /\ items' = Prepend(record[w], items)
    /\ added' = << record[w].req >> \o added
    /\ wpc' = [wpc EXCEPT ![w] = "add_trunc"]
    /\ UNCHANGED << cfg, window, monitor, prometheusQueriesTotal, providerRequestsTotal, bcall, gtime, hin, mpc, issued, prep, request, lists, now, hpc, resp, hjob, queue, recvq, wjob, record,
                    results, gpc, wg, fanlog, readerVars, counterVars,
                    dequeues, runs >>

\* A truncation that keeps the last max elements.
TruncateTail(s, max) ==
    IF Len(s) > max THEN SubSeq(s, Len(s) - max + 1, Len(s)) ELSE s

\* A truncation that only cuts once the length exceeds max + 1.
TruncateLate(s, max) == IF Len(s) > max + 1 THEN SubSeq(s, 1, max + 1) ELSE s

\* if len(s.items) > s.max { s.items = s.items[:s.max] }
Truncate(s, max) == IF Len(s) > max THEN SubSeq(s, 1, max) ELSE s

\* s.items[:s.max] panics (slice bounds out of range): s.max is negative.
Panics(s, max) == Len(s) > max /\ max < 0

\* The truncation of add and its deferred s.mu.Unlock(); processJob returns
\* and the worker is back at the receive.  When the slice expression panics,
\* the deferred Unlock runs and the panic leaves add, processJob and worker,
\* none of which recovers: the process ends.
addTruncate(w) ==
    /\ wpc[w] = "add_trunc"
    /\ mu' = [mu EXCEPT !.writer = 0]
    /\ IF Panics(items, cfg.MaxStoredAnalyses)
       THEN /\ wpc' = [v \in Workers |-> "crashed"]
            /\ UNCHANGED << items, snaps, wjob, record, results, gpc, fanlog,
                            request, issued, gtime >>
       ELSE /\ items' = Truncate(items, cfg.MaxStoredAnalyses)
            /\ snaps' = IF rpc \in {"make", "copy"}
                        THEN snaps \cup {items'}
                        ELSE snaps
            /\ wpc' = [wpc EXCEPT ![w] = "recv"]
            /\ wjob' = [wjob EXCEPT ![w] = NoJob]
            /\ record' = [record EXCEPT ![w] = ZeroRecord]
            /\ results' = [results EXCEPT ![w] = << >>]
            /\ gpc' = [gpc EXCEPT ![w] = << >>]
            /\ fanlog' = [fanlog EXCEPT ![w] = << >>]
            /\ request' = [request EXCEPT ![w] = NoRequest]
            /\ issued' = [issued EXCEPT ![w] = << >>]
            /\ gtime' = [gtime EXCEPT ![w] = << >>]
    /\ UNCHANGED << cfg, window, monitor, prometheusQueriesTotal, providerRequestsTotal, bcall, hin, mpc, prep, lists, now, hpc, resp, hjob, queue, recvq, wg, added, rpc, out,
                    nlist, counterVars, dequeues, runs >>

\* s.mu.RLock() of list; snaps starts with the store's content at this
\* instant, when no add is under way.
listRLock ==
    /\ Listening
    /\ ~Crashed
    /\ rpc = "idle"
    /\ nlist < MaxListCalls
    /\ CanRLock
    /\ mu' = [mu EXCEPT !.readers = @ + 1]
    /\ rpc' = "make"
    /\ nlist' = nlist + 1
    /\ snaps' = IF mu.writer = 0 THEN {items} ELSE {}
    /\ UNCHANGED << cfg, window, monitor, prometheusQueriesTotal, providerRequestsTotal, bcall, gtime, hin, mpc, issued, prep, request, lists, now, hpc, resp, hjob, queue, recvq, workerVars, items,
                    added, out, counterVars, dequeues, runs >>

\* out := make([]analysisRecord, len(s.items))
listMake ==
    /\ ~Crashed
    /\ rpc = "make"
    /\ out' = [i \in 1..Len(items) |-> ZeroRecord]
    /\ rpc' = "copy"
    /\ UNCHANGED << cfg, window, monitor, prometheusQueriesTotal, providerRequestsTotal, bcall, gtime, hin, mpc, issued, prep, request, lists, now, hpc, resp, hjob, queue, recvq, workerVars,
                    storeVars, nlist, snaps, counterVars, dequeues, runs >>

\* A list that hands its caller the slice of the store and starts a new one.
AfterListDrained(s) == << >>

\* s.items after list: list reads it and leaves it as it is.
AfterList(s) == s

\* copy(out, s.items), the deferred s.mu.RUnlock() and the return of out to
\* the handler.  The history of returned lists is kept when history is set.
listCopy(history) ==
    /\ ~Crashed
    /\ rpc = "copy"
    /\ out' = [i \in 1..Len(out) |-> IF i <= Len(items) THEN items[i] ELSE out[i]]
    /\ items' = AfterList(items)
    /\ mu' = [mu EXCEPT !.readers = @ - 1]
    /\ rpc' = "returned"
    /\ lists' = IF history
                THEN Append(lists, [list |-> out', adds |-> Len(added)])
                ELSE lists
    /\ UNCHANGED << cfg, window, monitor, prometheusQueriesTotal, providerRequestsTotal, bcall, gtime, hin, mpc, issued, prep, request, now, hpc, resp, hjob, queue, recvq, workerVars,
                    added, nlist, snaps, counterVars, dequeues, runs >>

\* handleLatestAnalyses (and handleHealthz) after list returned: the response
\* is written and the returned slice is dropped.
handleLatestAnalyses ==
    /\ ~Crashed
    /\ rpc = "returned"
    /\ out' = << >>
    /\ snaps' = {}
    /\ rpc' = "idle"
    /\ UNCHANGED << cfg, window, monitor, prometheusQueriesTotal, providerRequestsTotal, bcall, gtime, hin, mpc, issued, prep, request, lists, now, hpc, resp, hjob, queue, recvq, workerVars,
                    storeVars, nlist, counterVars, dequeues, runs >>

(***************************************************************************)
(* The gateway monitor: the probe loop of gateway-monitor's main.          *)
(***************************************************************************)
\* The variables of the alert receiver, which the probes leave alone.
receiverVars ==
    << cfg, now, hpc, resp, hjob, queue, recvq, wpc, wjob, record, results,
       gpc, wg, items, mu, rpc, out, nlist, alertsReceivedTotal,
       jobResultsTotal, queueDepthGauge, dequeues, runs, added, fanlog,
       lists, request, prep, issued, mpc, hin, gtime, bcall,
       providerRequestsTotal, prometheusQueriesTotal, snaps >>

\* probePorts := []int{443, 80}: what a probe is made of is, per port in
\* that order, whether the dial succeeds.
Dials == { << a, b >> : a, b \in BOOLEAN }

\* tcpProbe: up as soon as the dial of one port succeeds.
tcpProbe(dials) == \E k \in 1..Len(dials) : dials[k]

boolToFloat(b) == IF b THEN 1 ELSE 0

\* A detection that takes every tick on which the target is down.
TransitionDownLevel(prevUp, up) == ~up

\* prevGatewayUp && !gwUp, and the same for the WAN target.
TransitionDown(prevUp, up) == prevUp /\ ~up

\* An event labelled by the transitions alone.
FailureDomainByTransition(prevGatewayUp, prevWanUp, gwUp, wUp) ==
    LET gwTransitionDown == TransitionDown(prevGatewayUp, gwUp)
        wanTransitionDown == TransitionDown(prevWanUp, wUp)
    IN  IF gwTransitionDown /\ wanTransitionDown THEN "full"
        ELSE IF gwTransitionDown THEN "lan"
        ELSE IF wanTransitionDown THEN "wan"
        ELSE "none"

\* The label under which a tick counts a failure-domain event, "none" when
\* it counts nothing: the if chain after the two probes.
FailureDomain(prevGatewayUp, prevWanUp, gwUp, wUp) ==
    LET gwTransitionDown == TransitionDown(prevGatewayUp, gwUp)
        wanTransitionDown == TransitionDown(prevWanUp, wUp)
    IN  IF gwTransitionDown /\ wanTransitionDown
        THEN "full"
        ELSE IF gwTransitionDown /\ ~wanTransitionDown
        THEN IF wUp THEN "lan" ELSE "full"
        ELSE IF wanTransitionDown /\ ~gwTransitionDown
        THEN IF gwUp THEN "wan" ELSE "full"
        ELSE "none"

\* One round of the loop, from <-ticker.C to the assignments of prevGatewayUp
\* and prevWanUp: both probes, both gauges, the event if any.
probeTick(gwDials, wDials) ==
    LET gwUp == tcpProbe(gwDials)
        wUp == tcpProbe(wDials)
        domain == FailureDomain(monitor.prevGatewayUp, monitor.prevWanUp,
                                gwUp, wUp)
    IN  /\ Len(monitor.probes) < MaxTicks
        /\ monitor' =
               [prevGatewayUp |-> gwUp,
                prevWanUp |-> wUp,
                gatewayReachable |-> boolToFloat(gwUp),
                wanReachable |-> boolToFloat(wUp),
                failureDomainEventsTotal |->
                    IF domain = "none"
                    THEN monitor.failureDomainEventsTotal
                    ELSE [monitor.failureDomainEventsTotal
                              EXCEPT ![domain] = @ + 1],
                probes |-> Append(monitor.probes,
                                  [gwUp |-> gwUp, wUp |-> wUp])]
        /\ UNCHANGED << receiverVars, window >>

(***************************************************************************)
(* The jitter probe: the Window of latency samples.                        *)
(***************************************************************************)
\* The latencies passed to Add, in milliseconds.
Latencies == {1, 2, 3}

\* NewWindow(capacity): data is make([]float64, capacity), indexed from 0,
\* pos and count are 0.
NewWindow(capacity) ==
    /\ window = NoWindow
    /\ window' = [data |-> [k \in 0..(capacity - 1) |-> 0], pos |-> 0,
                  count |-> 0, cap |-> capacity, samples |-> << >>]
    /\ UNCHANGED << receiverVars, monitor >>

\* w.Add(latencyMs)
Add(latencyMs) ==
    /\ window # NoWindow
    /\ Len(window.samples) < MaxAdds
    /\ window' = [window EXCEPT
                     !.data[window.pos] = latencyMs,
                     !.pos = (window.pos + 1) % window.cap,
                     !.count = IF window.count < window.cap
                               THEN window.count + 1
                               ELSE window.count,
                     !.samples = Append(@, latencyMs)]
    /\ UNCHANGED << receiverVars, monitor >>

\* w.Len()
WindowLen(w) == w.count

\* w.data[from:to], as a sequence.
Slice(data, from, to) == [k \in 1..(to - from) |-> data[from + k - 1]]

\* A values that always reads the samples from the start of data.
valuesFromStart(w) == Slice(w.data, 0, w.count)

\* w.values(): nil for an empty window; data[:count] while the window is not
\* full; data[pos:] followed by data[:pos] once it is.
values(w) ==
    IF w.count = 0 THEN << >>
    ELSE IF w.count < w.cap THEN Slice(w.data, 0, w.count)
    ELSE Slice(w.data, w.pos, w.cap) \o Slice(w.data, 0, w.pos)

(***************************************************************************)
(* Specifications.                                                         *)
(***************************************************************************)
\* Spec: the queue and the worker pool.  Every number of workers and every
\* queue capacity within the bounds, no backend and no evidence query
\* (processJob takes its no-backend branch), a store of one record; every
\* request is a POST of a decodable payload and reads a later clock.
SpecConfigs ==
    { Config(W, Q, 1, 0, 0) : W \in 1..MaxWorkers, Q \in 0..MaxQueueSize }

PostInputs ==
    { in \in Inputs : /\ in.method = "POST" /\ in.decodes
                      /\ in.key = << "a", "/", "b" >> /\ in.alerts = << >> }

Init == InitWith(SpecConfigs)

Next ==
    \/ \E r \in Requests : handleGrafanaWebhook(r, PostInputs, {1})
    \/ \E r \in Requests : handlerQueued(r)
    \/ \E w \in Workers : workerReceive(w)
    \/ \E w \in Workers : processJob(w)
    \/ \E w \in Workers : addLock(w)
    \/ \E w \in Workers : addTruncate(w)

Spec == Init /\ [][Next]_vars

\* AdmissionSpec: the handler.  One worker, every queue capacity, every
\* request (any method, a body that decodes or not, two group keys that
\* sanitizeID maps to one identifier), and a clock that may stand still between
\* two requests.
AdmissionConfigs == { Config(1, Q, 1, 0, 0) : Q \in 0..MaxQueueSize }

AdmissionInputs == { in \in Inputs : in.key # << " " >> /\ in.alerts = << >> }

AdmissionInit == InitWith(AdmissionConfigs)

AdmissionNext ==
    \/ \E r \in Requests : handleGrafanaWebhook(r, AdmissionInputs, {0, 1})
    \/ \E r \in Requests : handlerQueued(r)
    \/ \E w \in Workers : workerReceive(w)
    \/ \E w \in Workers : processJob(w)
    \/ \E w \in Workers : addLock(w)
    \/ \E w \in Workers : addTruncate(w)

AdmissionSpec == AdmissionInit /\ [][AdmissionNext]_vars

\* FanoutSpec: runProviders.  One worker, a queue of one, a store of one,
\* every number of backends within the bound; each call times out, fails or
\* answers, and the calls of one job complete in every order.
FanoutConfigs == { Config(1, 1, 1, B, 0) : B \in 0..MaxBackends }

FanoutReplies ==
    { r \in Replies : r.err = "context deadline exceeded" \/ r.text = TextGood }

FanoutInit == InitWith(FanoutConfigs)

FanoutNext ==
    \/ \E r \in Requests : handleGrafanaWebhook(r, PostInputs, {1})
    \/ \E r \in Requests : handlerQueued(r)
    \/ \E w \in Workers : workerReceive(w)
    \/ \E w \in Workers : processJob(w)
    \/ \E w \in Workers : \E i \in Backends : providerGoroutine(w, i, FanoutReplies)
    \/ \E w \in Workers : runProvidersWait(w)
    \/ \E w \in Workers : addLock(w)
    \/ \E w \in Workers : addTruncate(w)

FanoutSpec == FanoutInit /\ [][FanoutNext]_vars

\* OverrideSpec: applyProviderOverrides on its own.  The caller's request has
\* each of its values empty (zero) or not; the overrides are empty, blank or
\* set for the system prompt, and negative, zero or positive for the numbers.
CallerRequests ==
    [built : {"built"}, SystemPrompt : {<< >>, << "d" >>},
     UserPrompt : {<< >>, << "e" >>}, MaxTokens : {0, 900},
     Temperature : {0, 2}]

OverridePrompts == { << >>, << " " >>, << "c" >>, << " ", "c" >> }

OverrideNumbers == { -1, 0, 5 }

OverrideCalls ==
    [req : CallerRequests, systemPrompt : OverridePrompts,
     maxTokens : OverrideNumbers, temperature : OverrideNumbers,
     returned : {FALSE}, out : {NoRequest}]

OverrideInit == InitOf({ Config(1, 1, 1, 0, 0) }, OverrideCalls)

OverrideNext == applyProviderOverridesCall

OverrideSpec == OverrideInit /\ [][OverrideNext]_vars

\* TimeSpec: the time the evidence queries are issued at.  One worker, a
\* queue of one, no backend, one evidence query, every lookback from zero
\* up; two submissions, whose payloads carry up to MaxAlerts alerts with or
\* without a start time, and time passes between any two steps.
TimeConfigs ==
    { [Config(1, 1, 1, 0, 1) EXCEPT !.PrometheusLookback = L] :
        L \in 0..MaxLookback }

TimeInputs ==
    { in \in Inputs : /\ in.method = "POST" /\ in.decodes
                      /\ in.key = << "a", "/", "b" >> }

TimeInit == InitWith(TimeConfigs)

TimeNext ==
    \/ \E r \in {1, 2} : handleGrafanaWebhook(r, TimeInputs, {0})
    \/ \E r \in {1, 2} : handlerQueued(r)
    \/ \E w \in Workers : workerReceive(w)
    \/ \E w \in Workers : processJob(w)
    \/ \E w \in Workers : addLock(w)
    \/ \E w \in Workers : addTruncate(w)
    \/ clockTick

TimeSpec == TimeInit /\ [][TimeNext]_vars

\* SkewSpec: as TimeSpec, with one submission and also with the negative
\* lookback that envDuration accepts for PROMETHEUS_LOOKBACK.
SkewConfigs ==
    { [Config(1, 1, 1, 0, 1) EXCEPT !.PrometheusLookback = L] :
        L \in -1..MaxLookback }

SkewInit == InitWith(SkewConfigs)

SkewNext ==
    \/ handleGrafanaWebhook(1, TimeInputs, {0})
    \/ handlerQueued(1)
    \/ \E w \in Workers : workerReceive(w)
    \/ \E w \in Workers : processJob(w)
    \/ \E w \in Workers : addLock(w)
    \/ \E w \in Workers : addTruncate(w)
    \/ clockTick

SkewSpec == SkewInit /\ [][SkewNext]_vars

\* StartupSpec: main.  The backend list holds up to MaxBackends backend
\* configurations, valid or not, in every order, and the environment has or
\* lacks the key and the region; one worker, and one submission once the
\* server listens.
BackendLists == UNION { [1..n -> BackendConfigs] : n \in 0..MaxBackends }

StartupConfigs ==
    { [WorkerCount |-> 1, JobQueueSize |-> 1, MaxStoredAnalyses |-> 1,
       PrometheusURL |-> DefaultPrometheusURL,
       PrometheusLookback |-> DefaultLookback,
       LLMTimeout |-> DefaultLLMTimeout,
       providers |-> << >>, MetricQueries |-> << >>,
       Backends |-> bs, Env |-> env] :
        bs \in BackendLists, env \in Environments }

StartupInit == InitState(StartupConfigs, {NoPrep}, "build")

StartupNext ==
    \/ mainBuildProviders
    \/ mainStartWorkers
    \/ mainListen
    \/ handleGrafanaWebhook(1, PostInputs, {1})
    \/ handlerQueued(1)
    \/ \E w \in Workers : workerReceive(w)
    \/ \E w \in Workers : processJob(w)
    \/ \E w \in Workers : \E i \in Backends : providerGoroutine(w, i, FanoutReplies)
    \/ \E w \in Workers : runProvidersWait(w)
    \/ \E w \in Workers : addLock(w)
    \/ \E w \in Workers : addTruncate(w)

StartupSpec == StartupInit /\ [][StartupNext]_vars

\* ReplySpec: the result of one call.  One worker, one backend, no evidence
\* query; the call returns anything Complete can return.
ReplyConfigs == { Config(1, Q, 1, 1, 0) : Q \in 0..MaxQueueSize }

ReplyInit == InitWith(ReplyConfigs)

ReplyNext ==
    \/ \E r \in Requests : handleGrafanaWebhook(r, PostInputs, {1})
    \/ \E r \in Requests : handlerQueued(r)
    \/ \E w \in Workers : workerReceive(w)
    \/ \E w \in Workers : processJob(w)
    \/ \E w \in Workers : \E i \in Backends : providerGoroutine(w, i, AllReplies)
    \/ \E w \in Workers : runProvidersWait(w)
    \/ \E w \in Workers : addLock(w)
    \/ \E w \in Workers : addTruncate(w)

ReplySpec == ReplyInit /\ [][ReplyNext]_vars

\* ConfidenceSpec: as ReplySpec, the call answering with a text that parses
\* as a StructuredAnalysis with a summary and a confidence of 0.5, 7 or -0.5,
\* or failing.
ConfidenceReplies ==
    ErrorReplies
        \cup { CompleteContent(c) :
                 c \in {TextGood, TextOverconfident, TextNegative} }

ConfidenceNext ==
    \/ \E r \in Requests : handleGrafanaWebhook(r, PostInputs, {1})
    \/ \E r \in Requests : handlerQueued(r)
    \/ \E w \in Workers : workerReceive(w)
    \/ \E w \in Workers : processJob(w)
    \/ \E w \in Workers : \E i \in Backends :
           providerGoroutine(w, i, ConfidenceReplies)
    \/ \E w \in Workers : runProvidersWait(w)
    \/ \E w \in Workers : addLock(w)
    \/ \E w \in Workers : addTruncate(w)

ConfidenceSpec == ReplyInit /\ [][ConfidenceNext]_vars

\* MetricsSpec: the evidence collection.  One worker, one backend, every
\* number of evidence queries within the bound, PROMETHEUS_URL unset, blank
\* or set; each query of each job fails or succeeds.
PrometheusURLs == { << >>, << " " >>, << " ", "u" >> }

MetricsConfigs ==
    { [Config(1, 1, 1, 1, M) EXCEPT
          !.PrometheusURL = envString(u, DefaultPrometheusURL)] :
        M \in 0..MaxQueries, u \in PrometheusURLs }

MetricsInit == InitWith(MetricsConfigs)

MetricsNext ==
    \/ \E r \in Requests : handleGrafanaWebhook(r, PostInputs, {1})
    \/ \E r \in Requests : handlerQueued(r)
    \/ \E w \in Workers : workerReceive(w)
    \/ \E w \in Workers : processJob(w)
    \/ \E w \in Workers : \E i \in Backends : providerGoroutine(w, i, FanoutReplies)
    \/ \E w \in Workers : runProvidersWait(w)
    \/ \E w \in Workers : addLock(w)
    \/ \E w \in Workers : addTruncate(w)

MetricsSpec == MetricsInit /\ [][MetricsNext]_vars

\* CallSpec: the calls one job makes.  One worker, a queue of one, a store of
\* one, every number of backends and of evidence queries within the bounds;
\* each query succeeds or fails and each backend call times out, fails or
\* answers.
CallConfigs ==
    { Config(1, 1, 1, B, M) : B \in 0..MaxBackends, M \in 0..MaxQueries }

CallInit == InitWith(CallConfigs)

CallNext ==
    \/ \E r \in {1, 2} : handleGrafanaWebhook(r, PostInputs, {1})
    \/ \E r \in Requests : handlerQueued(r)
    \/ \E w \in Workers : workerReceive(w)
    \/ \E w \in Workers : processJob(w)
    \/ \E w \in Workers : \E i \in Backends : providerGoroutine(w, i, FanoutReplies)
    \/ \E w \in Workers : runProvidersWait(w)
    \/ \E w \in Workers : addLock(w)
    \/ \E w \in Workers : addTruncate(w)

CallSpec == CallInit /\ [][CallNext]_vars

\* TimeoutSpec: the time the calls of a fan-out take.  One worker, one or
\* more backends, an LLM_TIMEOUT that is negative, zero or positive; a call
\* starts, runs while the clock advances, and returns.
TimeoutConfigs ==
    { [Config(1, 1, 1, B, 0) EXCEPT !.LLMTimeout = T] :
        B \in 1..MaxBackends, T \in -1..MaxTimeout }

\* What a call returns here: the error of the deadline, another error, or an
\* answer.
TimedReplies ==
    { r \in Replies : \/ r.err \in {"context deadline exceeded", "request failed"}
                      \/ r.text = TextGood }

TimeoutInit == InitWith(TimeoutConfigs)

TimeoutNext ==
    \/ \E r \in {1} : handleGrafanaWebhook(r, PostInputs, {0})
    \/ \E r \in Requests : handlerQueued(r)
    \/ \E w \in Workers : workerReceive(w)
    \/ \E w \in Workers : processJob(w)
    \/ \E w \in Workers : \E i \in Backends : providerStart(w, i)
    \/ \E w \in Workers : \E i \in Backends : providerReturn(w, i, TimedReplies)
    \/ \E w \in Workers : runProvidersWait(w)
    \/ \E w \in Workers : addLock(w)
    \/ \E w \in Workers : addTruncate(w)
    \/ callTick

TimeoutSpec == TimeoutInit /\ [][TimeoutNext]_vars

\* IdSpec: the identifiers of accepted jobs.  One worker, a queue of one and
\* the largest store; POSTs with every group key (two that differ only in
\* a character sanitizeID replaces, and a blank one) and a clock that may
\* stand still between two requests.
IdConfigs == { Config(1, 1, MaxStored, 0, 0) }

IdInputs ==
    { in \in Inputs : in.method = "POST" /\ in.decodes /\ in.alerts = << >> }

IdInit == InitWith(IdConfigs)

IdNext ==
    \/ \E r \in Requests : handleGrafanaWebhook(r, IdInputs, {0, 1})
    \/ \E r \in Requests : handlerQueued(r)
    \/ \E w \in Workers : workerReceive(w)
    \/ \E w \in Workers : processJob(w)
    \/ \E w \in Workers : addLock(w)
    \/ \E w \in Workers : addTruncate(w)

IdSpec == IdInit /\ [][IdNext]_vars

\* BedrockSpec: the unwrapping of bedrockProvider.Complete on its own.  The
\* body is no JSON (empty, plain, or plain within white space), or an
\* envelope of up to MaxBlocks content blocks, of type text or not, whose
\* text is empty, blank, plain, or has white space at an end.
BlockTexts ==
    { << >>, << " " >>, << "a" >>, << "b" >>, << " ", "a" >>, << "b", "\n" >> }

Blocks == [Type : {"text", "tool_use"}, Text : BlockTexts]

RawBodies == { << >>, << "p" >>, << " ", "p", "\n" >> }

EnvelopeText == << " ", "{", "}" >>

Bodies ==
    { BodyOf(raw, FALSE, << >>) : raw \in RawBodies }
      \cup { BodyOf(EnvelopeText, TRUE, content) :
               content \in UNION { [1..n -> Blocks] : n \in 0..MaxBlocks } }

BedrockCalls ==
    { [NoBedrockCall EXCEPT !.Body = body] : body \in Bodies }

BedrockInit ==
    InitAll({ Config(1, 1, 1, 0, 0) }, {NoPrep}, BedrockCalls, "serving")

BedrockNext == bedrockCompleteCall

BedrockSpec == BedrockInit /\ [][BedrockNext]_vars

\* ClientSpec: as TimeoutSpec, an LLM_TIMEOUT below, at and above the timeout
\* of the HTTP client.
ClientConfigs ==
    { [Config(1, 1, 1, B, 0) EXCEPT !.LLMTimeout = T] :
        B \in 1..MaxBackends, T \in (ClientTimeout - 1)..(ClientTimeout + 1) }

ClientInit == InitWith(ClientConfigs)

ClientSpec == ClientInit /\ [][TimeoutNext]_vars

\* MonitorSpec: the probe loop of the gateway monitor on its own; each probe
\* of each tick finds each port reachable or not.
MonitorInit == InitWith({ Config(1, 1, 1, 0, 0) })

MonitorNext == \E gwDials, wDials \in Dials : probeTick(gwDials, wDials)

MonitorSpec == MonitorInit /\ [][MonitorNext]_vars

\* WindowSpec: a Window of every capacity from 1 to the bound, and every
\* sequence of samples added to it.
WindowInit == InitWith({ Config(1, 1, 1, 0, 0) })

WindowNext ==
    \/ \E capacity \in 1..MaxWindow : NewWindow(capacity)
    \/ \E latencyMs \in Latencies : Add(latencyMs)

WindowSpec == WindowInit /\ [][WindowNext]_vars

\* OutcomeSpec: the outcome counters and the durations.  One worker, one or
\* more backends, every number of evidence queries, a timeout of one unit;
\* one submission; each query succeeds or fails, each call answers, fails or
\* runs into its deadline while the clock advances.
OutcomeConfigs ==
    { [Config(1, 1, 1, B, M) EXCEPT !.LLMTimeout = 1] :
        B \in 1..MaxBackends, M \in 0..MaxQueries }

OutcomeInit == InitWith(OutcomeConfigs)

OutcomeNext ==
    \/ \E r \in {1} : handleGrafanaWebhook(r, PostInputs, {0})
    \/ \E r \in Requests : handlerQueued(r)
    \/ \E w \in Workers : workerReceive(w)
    \/ \E w \in Workers : processJobCounting(w)
    \/ \E w \in Workers : \E i \in Backends : providerStart(w, i)
    \/ \E w \in Workers : \E i \in Backends : providerReturn(w, i, TimedReplies)
    \/ \E w \in Workers : runProvidersWait(w)
    \/ \E w \in Workers : addLock(w)
    \/ \E w \in Workers : addTruncate(w)
    \/ callTick

OutcomeSpec == OutcomeInit /\ [][OutcomeNext]_vars

\* StoreSpec: the record store under concurrent add.  Every number of workers
\* and every store capacity within the bounds, a queue of one, no backend.
StoreConfigs ==
    { Config(W, 1, N, 0, 0) : W \in 1..MaxWorkers, N \in 0..MaxStored }

StoreInit == InitWith(StoreConfigs)

StoreNext ==
    \/ \E r \in Requests : handleGrafanaWebhook(r, PostInputs, {1})
    \/ \E r \in Requests : handlerQueued(r)
    \/ \E w \in Workers : workerReceive(w)
    \/ \E w \in Workers : processJob(w)
    \/ \E w \in Workers : addLock(w)
    \/ \E w \in Workers : addTruncate(w)

StoreSpec == StoreInit /\ [][StoreNext]_vars

\* ReaderSpec: list under concurrent add.  Two workers, every store capacity
\* within the bound, and a reader that calls list.
ReaderConfigs == { Config(2, 1, N, 0, 0) : N \in 0..MaxStored }

ReaderInit == InitWith(ReaderConfigs)

ReaderNext ==
    \/ \E r \in Requests : handleGrafanaWebhook(r, PostInputs, {1})
    \/ \E r \in Requests : handlerQueued(r)
    \/ \E w \in Workers : workerReceive(w)
    \/ \E w \in Workers : processJob(w)
    \/ \E w \in Workers : addLock(w)
    \/ \E w \in Workers : addTruncate(w)
    \/ listRLock
    \/ listMake
    \/ listCopy(FALSE)
    \/ handleLatestAnalyses

ReaderSpec == ReaderInit /\ [][ReaderNext]_vars


\* OrderSpec: the order of the store.  As ReaderSpec with one worker as well,
\* a queue of one, a store of two and three submissions.
OrderConfigs == { Config(W, 1, 2, 0, 0) : W \in 1..MaxWorkers }

OrderInit == InitWith(OrderConfigs)

OrderNext ==
    \/ \E r \in {1, 2, 3} : handleGrafanaWebhook(r, PostInputs, {1})
    \/ \E r \in Requests : handlerQueued(r)
    \/ \E w \in Workers : workerReceive(w)
    \/ \E w \in Workers : processJob(w)
    \/ \E w \in Workers : addLock(w)
    \/ \E w \in Workers : addTruncate(w)
    \/ listRLock
    \/ listMake
    \/ listCopy(FALSE)
    \/ handleLatestAnalyses

OrderSpec == OrderInit /\ [][OrderNext]_vars

\* ListSpec: successive list calls.  One worker, every store capacity within
\* the bound, and a reader whose returned lists are kept.
ListConfigs == { Config(1, 1, N, 0, 0) : N \in 0..MaxStored }

ListInit == InitWith(ListConfigs)

ListNext ==
    \/ \E r \in Requests : handleGrafanaWebhook(r, PostInputs, {1})
    \/ \E r \in Requests : handlerQueued(r)
    \/ \E w \in Workers : workerReceive(w)
    \/ \E w \in Workers : processJob(w)
    \/ \E w \in Workers : addLock(w)
    \/ \E w \in Workers : addTruncate(w)
    \/ listRLock
    \/ listMake
    \/ listCopy(TRUE)
    \/ handleLatestAnalyses

ListSpec == ListInit /\ [][ListNext]_vars

\* PanicSpec: a panic inside a worker.  MAX_STORED_ANALYSES is -1, which
\* loadConfig accepts; every number of workers and every queue capacity within
\* the bounds, no backend.
PanicConfigs ==
    { Config(W, Q, -1, 0, 0) : W \in 1..MaxWorkers, Q \in 0..MaxQueueSize }

PanicInit == InitWith(PanicConfigs)

PanicNext ==
    \/ \E r \in Requests : handleGrafanaWebhook(r, PostInputs, {1})
    \/ \E r \in Requests : handlerQueued(r)
    \/ \E w \in Workers : workerReceive(w)
    \/ \E w \in Workers : processJob(w)
    \/ \E w \in Workers : addLock(w)
    \/ \E w \in Workers : addTruncate(w)

PanicSpec == PanicInit /\ [][PanicNext]_vars

\* LiveSpec: the pipeline from admission to the store with fair scheduling.
\* Every number of workers and every queue capacity within the bounds, no
\* backend and one evidence query or one backend and no evidence query, a
\* store of one.  Each worker
\* that can take a step eventually takes one, and each backend call that was
\* started eventually returns, with a response or an error.
LiveConfigs ==
    { Config(W, Q, 1, B, 1 - B) : W \in 1..MaxWorkers, Q \in 0..MaxQueueSize,
                                  B \in 0..1 }

LiveInit == InitWith(LiveConfigs)

workerStep(w) ==
    /\ w \in Workers
    /\ \/ workerReceive(w)
       \/ processJob(w)
       \/ runProvidersWait(w)
       \/ addLock(w)
       \/ addTruncate(w)

completeStep(w, i) ==
    /\ w \in Workers
    /\ i \in Backends
    /\ providerGoroutine(w, i, FanoutReplies)

LiveNext ==
    \/ \E r \in Requests : handleGrafanaWebhook(r, PostInputs, {1})
    \/ \E r \in Requests : handlerQueued(r)
    \/ \E w \in 1..MaxWorkers : workerStep(w)
    \/ \E w \in 1..MaxWorkers : \E i \in 1..MaxBackends : completeStep(w, i)

LiveSpec ==
    /\ LiveInit
    /\ [][LiveNext]_vars
    /\ \A w \in 1..MaxWorkers : WF_vars(workerStep(w))
    /\ \A w \in 1..MaxWorkers : \A i \in 1..MaxBackends : WF_vars(completeStep(w, i))

(***************************************************************************)
(* Properties.                                                             *)
(***************************************************************************)
\* The submissions whose job the handler has sent on the queue.
Accepted == { r \in Requests : hpc[r] = "queued" \/ resp[r] = 202 }

\* The accepted jobs no worker has dequeued yet.
Pending == { r \in Accepted : dequeues[r] = 0 }

\* Handler r takes its select step.
SelectStep(r) == hpc[r] = "idle" /\ hpc'[r] # "idle"

\* C1, as the specification states it: at most capacity jobs are accepted and
\* not yet dequeued, and a submission that finds the queue holding capacity
\* jobs is rejected at once.
C1_RejectsAtCapacity ==
    /\ [](Cardinality(Pending) <= cfg.JobQueueSize)
    /\ [][\A r \in Requests :
            SelectStep(r) /\ Len(queue) = cfg.JobQueueSize
                => resp'[r] = 503 /\ hpc'[r] = "done"]_vars

\* C1, as the code has it: at most capacity jobs are accepted and not yet
\* dequeued; a handler that has reached its select can always take it, so the
\* caller never waits; and a submission that finds the queue holding capacity
\* jobs is rejected at once unless a worker is blocked in the receive, to
\* which the job is then handed directly.
C1_NeverBlocks ==
    /\ [](Cardinality(Pending) <= cfg.JobQueueSize)
    /\ [](\A r \in Requests :
            hpc[r] = "idle" /\ (\A q \in 1..(r - 1) : hpc[q] # "idle")
                => ENABLED handleGrafanaWebhook(r, PostInputs, {1}))
    /\ [][\A r \in Requests :
            /\ SelectStep(r) => hpc'[r] \in {"queued", "done"}
            /\ SelectStep(r) /\ Len(queue) = cfg.JobQueueSize /\ recvq = << >>
                 => resp'[r] = 503 /\ hpc'[r] = "done"
            /\ SelectStep(r) /\ resp'[r] = 503
                 => Len(queue) = cfg.JobQueueSize /\ recvq = << >>]_vars

\* A submission was rejected while the queue held capacity jobs, one at least.
C1_Witness ==
    \E r \in Requests :
        /\ resp[r] = 503
        /\ cfg.JobQueueSize >= 1
        /\ Len(queue) = cfg.JobQueueSize
        /\ Cardinality(Pending) = cfg.JobQueueSize

\* The number of times job r sits in the buffer of the queue.
InQueue(r) == Cardinality({ k \in 1..Len(queue) : queue[k].req = r })

\* The workers that hold job r.
Holders(r) == { w \in Workers : wjob[w].req = r }

\* C2: no two workers receive the same job and processJob runs at most once
\* for a job: every accepted job is either still in the queue, once, or has
\* been dequeued, once, by the one worker that holds it until its processJob
\* has finished; a job that was not accepted is never dequeued.
C2_DequeuedOnce ==
    \A r \in Requests :
        /\ dequeues[r] <= 1
        /\ runs[r] <= dequeues[r]
        /\ Cardinality(Holders(r)) <= dequeues[r]
        /\ r \in Accepted => InQueue(r) + dequeues[r] = 1
        /\ r \notin Accepted => InQueue(r) = 0 /\ dequeues[r] = 0
        /\ \A w \in Holders(r) : wpc[w] # "dequeued" => runs[r] = 1

\* Two workers hold two different jobs at once, each with processJob run once.
C2_Witness ==
    \E w1, w2 \in Workers :
        /\ w1 # w2
        /\ wjob[w1].req # 0 /\ wjob[w2].req # 0
        /\ wjob[w1].req # wjob[w2].req
        /\ runs[wjob[w1].req] = 1 /\ runs[wjob[w2].req] = 1
        /\ dequeues[wjob[w1].req] = 1 /\ dequeues[wjob[w2].req] = 1

\* The number of records added to the store for the job of submission r.
StoredCount(r) == Cardinality({ k \in 1..Len(added) : added[k] = r })

\* C3: every accepted job eventually has exactly one record added to the
\* store, and never more than one, whatever the evidence queries, the prompt
\* construction and the backend calls return and whichever later submissions
\* are rejected.
C3_AcceptedIsStored ==
    /\ \A r \in Requests : (r \in Accepted) ~> (StoredCount(r) = 1)
    /\ [](\A r \in Requests :
            /\ StoredCount(r) <= 1
            /\ StoredCount(r) = 1 => r \in Accepted)

\* The record of an accepted job is in the store, with an error from the
\* prompt construction or a backend call, after a later submission was
\* rejected.
C3_Witness ==
    \E r, r2 \in Requests :
        /\ r < r2
        /\ resp[r] = 202 /\ StoredCount(r) = 1
        /\ resp[r2] = 503
        /\ items # << >>
        /\ items[1].req = r
        /\ items[1].Providers[1].Error # ""
        /\ Len(cfg.providers) >= 1

\* Handler r rejects its submission in this step: the default case.
Rejects(r) == SelectStep(r) /\ resp'[r] = 503

\* C4, as the specification states it: a rejection leaves the queue and the
\* store as they are, and no record with the identifier of the rejected
\* submission's job is in the store at any time.
C4_RejectedIdNeverStored ==
    /\ [][\A r \in Requests : Rejects(r) => queue' = queue /\ items' = items]_vars
    /\ [](\A r \in Requests :
            resp[r] = 503 =>
                \A k \in 1..Len(items) : items[k].ID # hjob[r].ID)

\* C4, as the code has it: a rejection leaves the queue and the store as they
\* are, hands the job to no worker, and no record of the rejected submission's
\* job is in the store at any time; a record with the same identifier is the
\* record of another submission, an accepted one, whose handler read the same
\* clock value and whose group key sanitizeID maps to the same text.
C4_RejectedJobNeverStored ==
    /\ [][\A r \in Requests :
            Rejects(r) => /\ queue' = queue
                          /\ items' = items
                          /\ recvq' = recvq
                          /\ wjob' = wjob]_vars
    /\ [](\A r \in Requests :
            resp[r] = 503 =>
                /\ StoredCount(r) = 0
                /\ InQueue(r) = 0
                /\ Holders(r) = {}
                /\ \A k \in 1..Len(items) :
                     /\ items[k].req # r
                     /\ items[k].ID = hjob[r].ID =>
                          /\ items[k].req \in Accepted
                          /\ hjob[items[k].req].ID[1] = hjob[r].ID[1]
                          /\ sanitizeID(hjob[items[k].req].GroupKey) =
                               sanitizeID(hjob[r].GroupKey))

\* A submission was rejected while the queue held a job, and that job's record
\* is now in the store.
C4_Witness ==
    \E r, q \in Requests :
        /\ q < r
        /\ resp[r] = 503
        /\ resp[q] = 202
        /\ cfg.JobQueueSize >= 1
        /\ items # << >>
        /\ items[1].req = q
        /\ items[1].ID # hjob[r].ID

\* runProviders has returned the results of a fan-out to worker w, whose
\* processJob is at s.store.add.
FanoutReturned(w) ==
    /\ wpc[w] \in {"add_lock", "add_trunc"}
    /\ Len(cfg.providers) >= 1
    /\ record[w].Providers # << PromptErrorResult >>

\* The stored records that come from a fan-out.
FanoutStored ==
    { k \in 1..Len(items) : /\ Len(cfg.providers) >= 1
                            /\ items[k].Providers # << PromptErrorResult >> }

\* Entry i of a Providers list names the i-th configured backend.
NamesConfigured(list) ==
    /\ Len(list) = Len(cfg.providers)
    /\ \A i \in 1..Len(list) :
         /\ i <= Len(cfg.providers)
         /\ list[i].Provider = cfg.providers[i].Name
         /\ list[i].Type = cfg.providers[i].Type
         /\ list[i].Model = cfg.providers[i].Model

\* C5: whenever the fan-out ran, the Providers list that runProviders returns,
\* and the one of every stored record, has one entry per configured backend,
\* and entry i carries the name, type and model of the i-th configured
\* backend, in whichever order the calls completed.
C5_ConfigurationOrder ==
    /\ \A w \in Workers : FanoutReturned(w) => NamesConfigured(record[w].Providers)
    /\ \A k \in FanoutStored : NamesConfigured(items[k].Providers)

\* The record of a fan-out over two backends is stored, the call to the
\* second backend having completed before the call to the first.
C5_Witness ==
    \E w \in Workers :
        /\ wpc[w] = "add_trunc"
        /\ items[1] = record[w]
        /\ Len(cfg.providers) = 2
        /\ Len(fanlog[w]) = 2
        /\ fanlog[w][1].idx = 2
        /\ fanlog[w][2].idx = 1
        /\ items[1].Providers[1].Provider = "b1"
        /\ items[1].Providers[2].Provider = "b2"

\* The goroutines that wrote slot s of worker w's results, in order.
WritersOf(w, s) ==
    LET sel == SelectSeq(fanlog[w], LAMBDA e : e.slot = s)
    IN  [k \in 1..Len(sel) |-> sel[k].idx]

\* C6: when runProviders returns, every goroutine it started has finished,
\* each slot has been written exactly once, by the goroutine of its own
\* index, and no slot of the returned list, or of a stored record's list, is
\* still the zero ProviderResult.
C6_WaitsForAll ==
    /\ \A w \in Workers :
         FanoutReturned(w) =>
             /\ wg[w] = 0
             /\ Len(record[w].Providers) = Len(cfg.providers)
             /\ \A i \in Backends :
                  /\ gpc[w][i] = "done"
                  /\ WritersOf(w, i) = << i >>
                  /\ record[w].Providers[i] # ZeroResult
    /\ \A k \in FanoutStored :
         \A i \in 1..Len(items[k].Providers) :
             items[k].Providers[i] # ZeroResult

\* runProviders has returned after a call that failed, a sibling's call having
\* succeeded before it: it did not return on the first success.
C6_Witness ==
    \E w \in Workers :
        /\ FanoutReturned(w)
        /\ Len(fanlog[w]) = 2
        /\ fanlog[w][1].reply.err = ""
        /\ fanlog[w][2].reply.err # ""
        /\ record[w].Providers[fanlog[w][2].idx].Error # ""

\* C7: in the list runProviders returns, the result of each backend holds
\* what its own call returned and nothing of its siblings': the error and no
\* response if the call failed, the response and an empty error if it
\* succeeded; once all calls have returned the job goes on, and the record
\* with these results is put in the store.
C7_FailureIsolated ==
    \A w \in Workers :
        /\ wpc[w] = "wait" /\ wg[w] = 0 => ENABLED runProvidersWait(w)
        /\ FanoutReturned(w) =>
             /\ Len(fanlog[w]) = Len(cfg.providers)
             /\ \A n \in 1..Len(fanlog[w]) :
                  LET e == fanlog[w][n]
                      res == record[w].Providers[e.idx]
                  IN  /\ e.reply.err # "" =>
                           res.Error = e.reply.err /\ res.Response = ""
                      /\ e.reply.err = "" =>
                           res.Error = "" /\ res.Response = e.reply.text
             /\ wpc[w] = "add_trunc" => items[1] = record[w]

\* A record is stored in which one backend's call timed out, first, and its
\* sibling's call succeeded.
C7_Witness ==
    \E w \in Workers :
        /\ wpc[w] = "add_trunc"
        /\ items[1] = record[w]
        /\ Len(fanlog[w]) = 2
        /\ fanlog[w][1].reply.err = "context deadline exceeded"
        /\ fanlog[w][2].reply.err = ""
        /\ items[1].Providers[fanlog[w][1].idx].Error = "context deadline exceeded"
        /\ items[1].Providers[fanlog[w][2].idx].Error = ""
        /\ items[1].Providers[fanlog[w][2].idx].Response = TextGood

\* The submissions the records of list come from, in order.
ReqsOf(list) == [i \in 1..Len(list) |-> list[i].req]

\* list returns in this step.
ListReturns == rpc = "copy" /\ rpc' = "returned"

\* C8: what list returns after M records were added to a store of capacity N
\* is the N most recently added records, newest first, when M > N, and all M
\* records, newest first, when M <= N; each is the record of its job.
C8_NewestFirst ==
    [][ListReturns =>
         LET n == Min(Len(added), cfg.MaxStoredAnalyses)
         IN  /\ Len(out') = n
             /\ ReqsOf(out') = SubSeq(added, 1, n)
             /\ \A i \in 1..Len(out') : out'[i].ID = hjob[out'[i].req].ID]_vars

\* list has returned two records, the two newest, from a store of capacity two
\* to which three records were added.
C8_Witness ==
    /\ rpc = "returned"
    /\ cfg.MaxStoredAnalyses = 2
    /\ Len(added) = 3
    /\ Len(out) = 2
    /\ ReqsOf(out) = SubSeq(added, 1, 2)

\* The place of submission r's record in the order of adds, 1 the newest,
\* after this step.
AddedPos(r) == CHOOSE k \in 1..Len(added') : added'[k] = r

\* The submissions whose record is in the store.
InStore(s) == { s[k].req : k \in 1..Len(s) }

\* C9: outside the critical section of an add the store holds at most N
\* records (inside it, between the append and the truncation, one more, which
\* no reader can see), and a step that removes a record from the store leaves
\* only newer records in it.
C9_BoundedFifo ==
    /\ [](/\ mu.writer = 0 => Len(items) <= cfg.MaxStoredAnalyses
          /\ Len(items) <= cfg.MaxStoredAnalyses + 1)
    /\ [][\A x \in InStore(items) \ InStore(items') :
            \A y \in InStore(items') : AddedPos(x) > AddedPos(y)]_vars

\* A full store has evicted a record while another worker waits to add.
C9_Witness ==
    /\ mu.writer = 0
    /\ cfg.MaxStoredAnalyses >= 1
    /\ Len(added) > cfg.MaxStoredAnalyses
    /\ Len(items) = cfg.MaxStoredAnalyses
    /\ ReqsOf(items) = SubSeq(added, 1, cfg.MaxStoredAnalyses)
    /\ \E w \in Workers : wpc[w] = "add_lock"

\* C10: what list returns is the content the store had at one instant of the
\* call at which no add was under way, and the returned list stays as it is
\* whatever is added afterwards.
C10_Snapshot ==
    [][/\ ListReturns => out' \in snaps
       /\ rpc = "returned" /\ rpc' = "returned" => out' = out]_vars

\* A list was returned, and an add that came later has changed the store.
C10_Witness ==
    /\ rpc = "returned"
    /\ out # << >>
    /\ items # << >>
    /\ out # items
    /\ out[1].req # items[1].req

\* C11: two list calls with no add between them return equal sequences, and
\* no step of list changes the store.
C11_ListIdempotent ==
    /\ [](\A i, j \in 1..Len(lists) :
            lists[i].adds = lists[j].adds => lists[i].list = lists[j].list)
    /\ [][rpc' # rpc => items' = items /\ added' = added]_vars

\* Two list calls returned the same two records, no add having come between
\* them.
C11_Witness ==
    /\ Len(lists) = 2
    /\ lists[1].adds = lists[2].adds
    /\ lists[1].list = lists[2].list
    /\ Len(lists[1].list) = 2

\* The workers that can still take a job.
LiveWorkers == { w \in Workers : wpc[w] # "crashed" }

\* C12: after a panic inside a worker the worker recovers and goes on with
\* its loop, so the number of workers that can take jobs stays the configured
\* worker count.
C12_WorkersSurvive == Cardinality(LiveWorkers) = cfg.WorkerCount

\* The jobs that were dequeued and whose record is not in the store yet.
InFlight == { r \in Requests : dequeues[r] >= 1 /\ StoredCount(r) = 0 }

\* C13: a worker holds at most one job and lets go of it only when its record
\* has been passed to the store, after enrichment, fan-out and record
\* assembly; so the jobs dequeued and not yet stored are held each by one
\* worker, are at most as many as the workers, and none is dropped.
C13_OneJobPerWorker ==
    /\ [](/\ Cardinality(InFlight) <= cfg.WorkerCount
          /\ \A r \in InFlight :
               /\ Cardinality(Holders(r)) = 1
               /\ \A w \in Holders(r) : wpc[w] \in {"dequeued", "wait", "add_lock"}
          /\ \A w \in Workers :
               /\ wpc[w] \in {"recv", "parked"} <=> wjob[w] = NoJob
               /\ wpc[w] \in {"add_lock", "add_trunc"} =>
                    /\ record[w].req = wjob[w].req
                    /\ record[w].ID = wjob[w].ID
                    /\ Len(record[w].Metrics) = Len(cfg.MetricQueries)
                    /\ record[w].Providers # << >>)
    /\ [][\A w \in Workers :
            wjob[w] # NoJob /\ wjob'[w] # wjob[w]
                => /\ wjob'[w] = NoJob
                   /\ StoredCount(wjob[w].req) = 1]_vars

\* Two workers are each in the middle of a job while a third job waits in the
\* queue.
C13_Witness ==
    /\ cfg.WorkerCount = 2
    /\ Cardinality(InFlight) = 2
    /\ queue # << >>
    /\ \E w \in Workers : wpc[w] = "wait"

\* A provider list that is exactly the synthetic no-backend result.
IsNoBackendList(list) ==
    /\ Len(list) = 1
    /\ list[1].Provider = "none"
    /\ list[1].Error = "no LLM backends configured"
    /\ list[1].Response = ""
    /\ list[1].Parsed = NoParsed

\* C14: with no backend configured, no job is fanned out (no request is
\* built, no goroutine is started, no call is made) and the record of every
\* processed job, on its way to the store and in the store, has exactly one
\* provider entry: the synthetic one, whose error says that no backend is
\* configured.  The provider list is never empty.
C14_NoBackendSynthetic ==
    Len(cfg.providers) = 0 =>
        /\ \A w \in Workers :
             /\ wpc[w] # "wait"
             /\ gpc[w] = << >> /\ wg[w] = 0 /\ fanlog[w] = << >>
             /\ request[w] = NoRequest
             /\ wpc[w] \in {"add_lock", "add_trunc"} =>
                    IsNoBackendList(record[w].Providers)
        /\ \A k \in 1..Len(items) : IsNoBackendList(items[k].Providers)

\* A job was processed with no backend configured and its record is stored.
C14_Witness ==
    /\ Len(cfg.providers) = 0
    /\ jobResultsTotal.processed >= 1
    /\ Len(items) = 1
    /\ items[1].Providers = << NoBackendResult >>
    /\ \E w \in Workers : wpc[w] = "recv" /\ dequeues[items[1].req] = 1

\* A provider list that is exactly one error entry naming no configured
\* backend.
IsPromptErrorList(list) ==
    /\ Len(list) = 1
    /\ list[1].Provider = "prompt-builder"
    /\ list[1].Type = "internal"
    /\ \A i \in Backends : list[1].Provider # cfg.providers[i].Name
    /\ list[1].Model = ""
    /\ list[1].Error # ""
    /\ list[1].Response = ""
    /\ list[1].Parsed = NoParsed

\* C15: when buildLLMRequest fails for a job, no goroutine is started and no
\* backend is called for it, the worker goes on to s.store.add with the
\* record of the job (its id, its metrics) whose provider list is exactly one
\* synthetic error entry tied to no backend, and the worker leaves the job
\* only when that record has been put in the store.
C15_PromptFailureStored ==
    /\ [](\A w \in Workers :
            request[w].built = "failed" =>
                /\ wpc[w] \in {"add_lock", "add_trunc"}
                /\ gpc[w] = << >> /\ wg[w] = 0 /\ fanlog[w] = << >>
                /\ record[w].req = wjob[w].req
                /\ record[w].ID = wjob[w].ID
                /\ Len(record[w].Metrics) = Len(cfg.MetricQueries)
                /\ IsPromptErrorList(record[w].Providers))
    /\ [][\A w \in Workers :
            request[w].built = "failed" /\ request'[w].built # "failed"
                => /\ \E k \in 1..Len(items') : items'[k] = record[w]
                   /\ \E k \in 1..Len(added') : added'[k] = wjob[w].req
                   /\ jobResultsTotal.processed >= 1]_vars

\* With two backends configured, the prompt of a job could not be built and
\* the job's record, with the one synthetic entry, is in the store.
C15_Witness ==
    /\ Len(cfg.providers) = 2
    /\ Len(items) = 1
    /\ items[1].Providers = << PromptErrorResult >>
    /\ \A w \in Workers : wpc[w] = "recv" /\ request[w] = NoRequest

\* Snapshot i of list is the snapshot of the i-th configured query: with no
\* error, or with an error and then nothing but the name, the description
\* and the expression of the query.
SnapshotOfQuery(list, i) ==
    /\ list[i].Name = cfg.MetricQueries[i].Name
    /\ list[i].Description = cfg.MetricQueries[i].Description
    /\ list[i].Query = cfg.MetricQueries[i].Query
    /\ list[i].Error # "" <=> ~list[i].Series

OnePerQuery(list) ==
    /\ Len(list) = Len(cfg.MetricQueries)
    /\ \A i \in 1..Len(list) :
         i <= Len(cfg.MetricQueries) /\ SnapshotOfQuery(list, i)

\* C16: the metrics of every processed job, in the record under way and in
\* the store, are one snapshot per configured query, in configuration order,
\* whichever queries failed; the snapshot of a failed query has the query's
\* name, description and expression, a non-empty error and no series; and
\* processJob goes from the collection on to the fan-out whatever failed.
C16_OneSnapshotPerQuery ==
    /\ [](/\ cfg.PrometheusURL # << >>
          /\ \A w \in Workers :
               wpc[w] \in {"wait", "add_lock", "add_trunc"} =>
                   OnePerQuery(record[w].Metrics)
          /\ \A k \in 1..Len(items) : OnePerQuery(items[k].Metrics))
    /\ [][\A w \in Workers :
            wpc[w] = "dequeued" /\ wpc'[w] # "dequeued" /\ request'[w].built = "built"
                => /\ wpc'[w] = "wait"
                   /\ \A i \in Backends : gpc'[w][i] = "call"
                   /\ record'[w].Error = ""]_vars

\* Of two configured queries the first failed and the second succeeded for a
\* job; the job went through the fan-out and its record is stored.
C16_Witness ==
    /\ Len(cfg.MetricQueries) = 2
    /\ Len(items) = 1
    /\ items[1].Metrics[1].Error # "" /\ ~items[1].Metrics[1].Series
    /\ items[1].Metrics[2].Error = "" /\ items[1].Metrics[2].Series
    /\ NamesConfigured(items[1].Providers)

\* What a result says of the text of a successful call: the structured
\* analysis is attached exactly when the text parses and has a summary, and
\* then it is the parsed one; the text is kept as it was returned and no
\* error is recorded.
ParsedIffSummary(result, text) ==
    LET parsed == UnmarshalStructured(text)
    IN  /\ result.Response = text
        /\ result.Error = ""
        /\ result.Parsed # NoParsed <=> (parsed.ok /\ parsed.Summary # "")
        /\ result.Parsed # NoParsed =>
               /\ result.Parsed.Summary = parsed.Summary
               /\ result.Parsed.Confidence = parsed.Confidence

\* C17: the result of a call carries a structured analysis if and only if
\* the call succeeded, the response text parses as a StructuredAnalysis and
\* the parsed summary is not empty.  The result of every other successful
\* call keeps the response text as returned, has no structured analysis and
\* no error; the result of a failed call has no structured analysis.  This
\* holds for the results the goroutines write and for the stored ones.
C17_ParsedIffSummary ==
    /\ \A w \in Workers : \A n \in 1..Len(fanlog[w]) :
         LET e == fanlog[w][n]
             result == results[w][e.slot]
         IN  IF e.reply.err = ""
             THEN ParsedIffSummary(result, e.reply.text)
             ELSE result.Parsed = NoParsed /\ result.Error = e.reply.err
    /\ \A k \in FanoutStored : \A i \in 1..Len(items[k].Providers) :
         LET result == items[k].Providers[i]
         IN  IF result.Error = ""
             THEN ParsedIffSummary(result, result.Response)
             ELSE result.Parsed = NoParsed

\* A call answered with JSON of the right shape whose summary is empty; its
\* result is stored with the text and without a structured analysis.
C17_Witness ==
    /\ Len(items) = 1
    /\ Len(items[1].Providers) = 1
    /\ items[1].Providers[1].Response = TextNoSummary
    /\ items[1].Providers[1].Parsed = NoParsed
    /\ items[1].Providers[1].Error = ""
    /\ items[1].Providers[1].Provider = cfg.providers[1].Name

\* C18: every result of the fan-out has exactly one of its error and its
\* response text non-empty.
C18_ErrorXorResponse ==
    /\ \A w \in Workers : \A n \in 1..Len(fanlog[w]) :
         LET result == results[w][fanlog[w][n].slot]
         IN  (result.Error # "") # (result.Response # "")
    /\ \A k \in FanoutStored : \A i \in 1..Len(items[k].Providers) :
         (items[k].Providers[i].Error # "") # (items[k].Providers[i].Response # "")

\* C19: what applyProviderOverrides returns differs from the caller's request
\* in the system prompt only if the override is not blank, in the max tokens
\* and the temperature only if the override is positive, and then the value
\* is the override; an empty, blank, zero or negative override leaves the
\* caller's value.  A caller's value that is not empty (not zero) is never
\* returned empty (zero), and the user prompt is the caller's.
C19_OverridesOnlyNonDefault ==
    prep.returned =>
        /\ prep.out.SystemPrompt =
               IF TrimSpace(prep.systemPrompt) # << >>
               THEN prep.systemPrompt ELSE prep.req.SystemPrompt
        /\ prep.out.MaxTokens =
               IF prep.maxTokens > 0 THEN prep.maxTokens ELSE prep.req.MaxTokens
        /\ prep.out.Temperature =
               IF prep.temperature > 0
               THEN prep.temperature ELSE prep.req.Temperature
        /\ prep.req.SystemPrompt # << >> => prep.out.SystemPrompt # << >>
        /\ prep.req.MaxTokens # 0 => prep.out.MaxTokens # 0
        /\ prep.req.Temperature # 0 => prep.out.Temperature # 0
        /\ prep.out.UserPrompt = prep.req.UserPrompt
        /\ prep.out.built = prep.req.built

\* A call has returned whose system prompt override is blank, whose max
\* tokens override is zero and whose temperature override is positive, on a
\* request with all values set: the first two are the caller's, the third is
\* the override.
C19_Witness ==
    /\ prep.returned
    /\ prep.systemPrompt = << " " >> /\ prep.maxTokens = 0 /\ prep.temperature = 5
    /\ prep.req.SystemPrompt = << "d" >> /\ prep.req.MaxTokens = 900
    /\ prep.req.Temperature = 2 /\ prep.req.UserPrompt = << "e" >>
    /\ prep.out.SystemPrompt = << "d" >> /\ prep.out.MaxTokens = 900
    /\ prep.out.Temperature = 5

\* The request built for the job worker w holds.
BaseRequest(w) == buildLLMRequest(wjob[w])

\* C20: while the fan-out of a job runs and until its record is stored, the
\* request built for the job stays as buildLLMRequest returned it, and the
\* request each backend was called with is that request with the overrides
\* of this backend alone, whichever calls were prepared before it.
C20_BaseRequestUnchanged ==
    \A w \in Workers :
        request[w].built = "built" =>
            /\ request[w] = BaseRequest(w)
            /\ \A n \in 1..Len(fanlog[w]) :
                 LET e == fanlog[w][n]
                     p == cfg.providers[e.idx]
                 IN  e.req = applyProviderOverrides(BaseRequest(w), p.SystemPrompt,
                                                    p.MaxTokens, p.Temperature)

\* Both calls of a fan-out over two backends have been made, the one to the
\* second backend, which overrides all three values, before the one to the
\* first, which was called with the system prompt of the job's request.
C20_Witness ==
    \E w \in Workers :
        /\ Len(cfg.providers) = 2
        /\ Len(fanlog[w]) = 2
        /\ fanlog[w][1].idx = 2 /\ fanlog[w][2].idx = 1
        /\ fanlog[w][1].req.SystemPrompt = cfg.providers[2].SystemPrompt
        /\ fanlog[w][1].req.MaxTokens = cfg.providers[2].MaxTokens
        /\ fanlog[w][2].req.SystemPrompt = BaseRequest(w).SystemPrompt
        /\ fanlog[w][1].req # fanlog[w][2].req

\* The start times the alerts of a job carry.
Starts(job) == { job.Alerts[i] : i \in 1..Len(job.Alerts) } \ {0}

\* The earliest of them.
EarliestStart(job) == CHOOSE t \in Starts(job) : \A u \in Starts(job) : t <= u

\* C21: the evidence queries of a job of which an alert carries a start time
\* are all issued at the earliest such start time plus the lookback, or at
\* the time of the collection if that is earlier; never later than the time
\* of the collection.
C21_AnchoredOnEarliestStart ==
    \A w \in Workers : \A n \in 1..Len(issued[w]) :
        Starts(wjob[w]) # {} =>
            /\ issued[w][n].time =
                   Min(EarliestStart(wjob[w]) + cfg.PrometheusLookback,
                       issued[w][n].now)
            /\ issued[w][n].time <= issued[w][n].now

\* C22: the evidence queries of a job none of whose alerts carries a start
\* time (it has no alert, or every StartsAt is zero) are issued at the job's
\* arrival time plus the lookback, or at the time of the collection if that
\* is earlier, however long the job waited in the queue.
C22_AnchoredOnArrival ==
    \A w \in Workers : \A n \in 1..Len(issued[w]) :
        Starts(wjob[w]) = {} =>
            issued[w][n].time =
                Min(wjob[w].ReceivedAt + cfg.PrometheusLookback,
                    issued[w][n].now)

\* A backend configuration is invalid: its model is missing, or the API key
\* of an openai backend, or the region of a bedrock backend, or its type is
\* not supported.
InvalidBackend(b) ==
    \/ b.Model = ""
    \/ b.Type = "openai" /\ (b.APIKeyEnv = "" \/ cfg.Env[b.APIKeyEnv] \in {<< >>, << " " >>})
    \/ b.Type = "bedrock" /\ b.Region = "" /\ cfg.Env.AWS_REGION = << >>
    \/ b.Type \notin {"openai", "ollama", "bedrock"}

Misconfigured == \E i \in 1..Len(cfg.Backends) : InvalidBackend(cfg.Backends[i])

\* C23: with an invalid backend anywhere in the configured list, main never
\* gets past buildProviders: no worker is started, the server never listens,
\* no request is answered, no job is queued or processed and nothing is
\* stored; main has exited as soon as buildProviders has run.
C23_FailsFastAtStartup ==
    Misconfigured =>
        /\ mpc \in {"build", "exited"}
        /\ cfg.providers = << >>
        /\ \A w \in Workers : wpc[w] = "unstarted" /\ wjob[w] = NoJob
        /\ \A r \in Requests : hpc[r] = "idle" /\ resp[r] = 0
        /\ queue = << >> /\ items = << >>
        /\ alertsReceivedTotal = 0 /\ jobResultsTotal.processed = 0

\* main has exited on a list whose first backend is valid and whose second
\* is not.
C23_Witness ==
    /\ mpc = "exited"
    /\ Len(cfg.Backends) = 2
    /\ ~InvalidBackend(cfg.Backends[1])
    /\ InvalidBackend(cfg.Backends[2])
    /\ \A w \in Workers : wpc[w] = "unstarted"

\* The status the handler owes request r, whose job was enqueued or not.
OutcomeOf(r, enqueued) ==
    IF hin[r].method # "POST" THEN 405
    ELSE IF ~hin[r].decodes THEN 400
    ELSE IF enqueued THEN 202 ELSE 503

\* The job of request r was put on the queue: a worker received it, or it is
\* in the buffer.
Enqueued(r) == dequeues[r] >= 1 \/ InQueue(r) >= 1

\* C24: a request whose handler has returned has exactly one status, written
\* once and never changed: 405 for any method but POST, whatever the body;
\* 400 for a POST whose body does not decode; and for a POST with a body that
\* decodes, 202 if its job was enqueued and 503 if it was not.  A handler that
\* has not returned yet has written nothing but has enqueued its job.
C24_OneOutcomeInOrder ==
    /\ [](\A r \in Requests :
            /\ hpc[r] = "done" => resp[r] = OutcomeOf(r, Enqueued(r))
            /\ hpc[r] = "queued" =>
                   /\ resp[r] = 0 /\ Enqueued(r)
                   /\ hin[r].method = "POST" /\ hin[r].decodes
            /\ hpc[r] = "idle" => resp[r] = 0 /\ ~Enqueued(r)
            /\ resp[r] \in {400, 405, 503} => ~Enqueued(r))
    /\ [][\A r \in Requests :
            /\ resp[r] # 0 => resp'[r] = resp[r]
            /\ Enqueued(r) => Enqueued(r)']_vars

\* A GET with a body that decodes was answered 405, and of two POSTs the
\* queue took one, answered 202, and not the other, answered 503.
C24_Witness ==
    /\ \E r \in Requests : resp[r] = 405 /\ hin[r].decodes
    /\ \E r \in Requests : resp[r] = 202 /\ Enqueued(r)
    /\ \E r \in Requests : resp[r] = 503 /\ hin[r].method = "POST" /\ hin[r].decodes

\* Handler r refuses its request in this step as not a POST or as malformed.
Refuses(r) == SelectStep(r) /\ resp'[r] \in {400, 405}

\* C25: the step in which a request is refused with 400 or 405 creates no job
\* and leaves the queue, the workers, the record store and every counter as
\* they are; so the received counter counts the decoded POSTs only and the
\* queue_full counter the capacity rejections only.
C25_RefusalChangesNothing ==
    /\ [][\A r \in Requests :
            Refuses(r) => /\ hjob'[r] = NoJob
                          /\ queue' = queue /\ recvq' = recvq
                          /\ wjob' = wjob /\ wpc' = wpc
                          /\ items' = items
                          /\ alertsReceivedTotal' = alertsReceivedTotal
                          /\ jobResultsTotal' = jobResultsTotal
                          /\ queueDepthGauge' = queueDepthGauge]_vars
    /\ [](/\ \A r \in Requests : resp[r] \in {400, 405} => hjob[r] = NoJob
          /\ jobResultsTotal.queue_full =
                 Cardinality({ r \in Requests : resp[r] = 503 })
          /\ alertsReceivedTotal =
                 Cardinality({ r \in Requests :
                                 hin[r].method = "POST" /\ hin[r].decodes }))

\* A malformed POST and a GET were refused after a POST was rejected for
\* capacity: one rejection is counted, and one request as received.
C25_Witness ==
    /\ \E r \in Requests : resp[r] = 503
    /\ \E r \in Requests : resp[r] = 400
    /\ \E r \in Requests : resp[r] = 405
    /\ jobResultsTotal.queue_full = 1
    /\ alertsReceivedTotal = 1

\* The submissions rejected for capacity.
RejectedForCapacity == { r \in Requests : resp[r] = 503 }

\* C26: the received counter equals the number of accepted submissions and the
\* queue_full counter the number of submissions rejected for capacity.  The
\* handler increments the received counter before its select, so a submission
\* the queue then rejects has been counted as received too: the first
\* equation fails as soon as one submission is answered 503.
C26_CountersMatchOutcomes ==
    /\ alertsReceivedTotal = Cardinality(Accepted)
    /\ jobResultsTotal.queue_full = Cardinality(RejectedForCapacity)

\* The number of calls of Complete worker w's job has made to backend i.
CallsOf(w, i) == Len(SelectSeq(fanlog[w], LAMBDA e : e.idx = i))

\* Worker w's job is past the collection of evidence and a fan-out was
\* started for it.
FanoutStarted(w) ==
    \/ wpc[w] = "wait"
    \/ FanoutReturned(w)

\* C27: within one job every configured evidence query is executed exactly
\* once, in order; while the fan-out runs no backend has been called more than
\* once, a call is only ever made to a backend not called yet for this job,
\* also after a call that failed, and when the fan-out has returned every
\* configured backend has been called exactly once, so that the job made as
\* many calls as there are backends.
C27_CalledExactlyOnce ==
    /\ [](\A w \in Workers :
            /\ wpc[w] \in {"wait", "add_lock", "add_trunc"} =>
                 /\ Len(issued[w]) = Len(cfg.MetricQueries)
                 /\ \A i \in 1..Len(issued[w]) :
                      issued[w][i].query = cfg.MetricQueries[i].Name
            /\ FanoutStarted(w) =>
                 \A i \in Backends : CallsOf(w, i) <= 1
            /\ FanoutReturned(w) =>
                 /\ \A i \in Backends : CallsOf(w, i) = 1
                 /\ Len(fanlog[w]) = Len(cfg.providers))
    /\ [][\A w \in Workers :
            fanlog'[w] # fanlog[w] /\ wpc[w] = "wait" =>
                /\ Len(fanlog'[w]) = Len(fanlog[w]) + 1
                /\ CallsOf(w, fanlog'[w][Len(fanlog'[w])].idx) = 0]_vars

\* A job with two evidence queries and two backends: one query failed, the
\* call to one backend failed and the call to the other answered; the fan-out
\* has returned after two calls, and two queries were issued.
C27_Witness ==
    \E w \in Workers :
        /\ FanoutReturned(w)
        /\ Len(cfg.providers) = 2
        /\ Len(cfg.MetricQueries) = 2
        /\ Len(issued[w]) = 2
        /\ record[w].Metrics[1].Error # ""
        /\ record[w].Metrics[2].Error = ""
        /\ Len(fanlog[w]) = 2
        /\ fanlog[w][1].reply.err # ""
        /\ fanlog[w][2].reply.err = ""

\* The longest a call can run under the configured timeout: a context made
\* with a timeout of zero or less is done from the start.
Allowed == IF cfg.LLMTimeout > 0 THEN cfg.LLMTimeout ELSE 0

\* The latest start of a call of worker w's fan-out.
LatestStart(w) ==
    CHOOSE t \in { gtime[w][i].start : i \in Backends } :
        \A i \in Backends : gtime[w][i].start <= t

\* The call of worker w to backend i ended with the error of the deadline and
\* without a response.
TimedOut(w, i) ==
    /\ results[w][i].Error = "context deadline exceeded"
    /\ results[w][i].Response = ""

\* C28: each call of a fan-out has its own deadline, the configured timeout
\* after its own start.  No call is running after its deadline; a call that
\* has returned did so no later than its deadline, with the deadline's error
\* on its own result exactly when it was still running at the deadline; a
\* call not started yet can start whatever its siblings are doing, so the
\* calls run side by side; and when the fan-out has returned, every call has
\* ended no later than the timeout after the latest start, not after the sum
\* of the timeouts.
C28_OwnDeadline ==
    \A w \in Workers :
        FanoutStarted(w) =>
            /\ \A i \in Backends :
                 /\ gpc[w][i] = "call" => ENABLED providerStart(w, i)
                 /\ gpc[w][i] = "running" =>
                        now <= gtime[w][i].start + Allowed
                 /\ gpc[w][i] = "done" =>
                        /\ gtime[w][i].start <= gtime[w][i].end
                        /\ gtime[w][i].end <= gtime[w][i].start + Allowed
                        /\ TimedOut(w, i) <=>
                               gtime[w][i].end >= gtime[w][i].start + cfg.LLMTimeout
            /\ FanoutReturned(w) =>
                   \A i \in Backends :
                       gtime[w][i].end <= LatestStart(w) + Allowed

\* Two calls started at the same time under a positive timeout; both ran to
\* their deadline and ended with its error, and the fan-out has returned one
\* timeout, not two, after their start.
C28_Witness ==
    \E w \in Workers :
        /\ FanoutReturned(w)
        /\ Len(cfg.providers) = 2
        /\ cfg.LLMTimeout = 2
        /\ gtime[w][1].start = gtime[w][2].start
        /\ TimedOut(w, 1) /\ TimedOut(w, 2)
        /\ gtime[w][1].end = gtime[w][1].start + 2
        /\ gtime[w][2].end = gtime[w][2].start + 2
        /\ now = gtime[w][1].start + 2

\* The jobs of requests r and q were given the same clock reading and group
\* keys that sanitizeID maps to the same text.
SameClockAndKey(r, q) ==
    /\ hjob[r].ReceivedAt = hjob[q].ReceivedAt
    /\ sanitizeID(hjob[r].GroupKey) = sanitizeID(hjob[q].GroupKey)

\* C29, as the specification states it: any two distinct accepted jobs have
\* distinct identifiers, and no two stored records share an identifier.
C29_DistinctIds ==
    /\ \A r, q \in Accepted : r # q => hjob[r].ID # hjob[q].ID
    /\ \A k, l \in 1..Len(items) : k # l => items[k].ID # items[l].ID

\* C29, as the code has it: two distinct accepted jobs have the same
\* identifier exactly when their handlers read the same clock value and their
\* group keys are mapped to the same text by sanitizeID; so jobs that read
\* different clock values, or whose keys differ in more than the characters
\* sanitizeID replaces, have distinct identifiers, and two stored records
\* share an identifier only when they are the records of two such jobs.
C29_DistinctUnlessSameClockAndKey ==
    /\ \A r, q \in Accepted :
         r # q => (hjob[r].ID = hjob[q].ID <=> SameClockAndKey(r, q))
    /\ \A k, l \in 1..Len(items) :
         k # l /\ items[k].ID = items[l].ID =>
             /\ items[k].req # items[l].req
             /\ SameClockAndKey(items[k].req, items[l].req)

\* Three jobs were accepted on one clock reading: two with group keys that
\* differ only in a replaced character have the same identifier, and their
\* records are both in the store; the third, with another key, has its own.
C29_Witness ==
    \E r, q, p \in Accepted :
        /\ hjob[r].ReceivedAt = hjob[q].ReceivedAt
        /\ hjob[r].ReceivedAt = hjob[p].ReceivedAt
        /\ hjob[r].GroupKey = << "a", "/", "b" >>
        /\ hjob[q].GroupKey = << "a", ":", "b" >>
        /\ hjob[p].GroupKey = << " " >>
        /\ hjob[r].ID = hjob[q].ID
        /\ hjob[p].ID # hjob[r].ID
        /\ Len(items) = 2
        /\ {items[1].req, items[2].req} = {r, q}
        /\ items[1].ID = items[2].ID

\* The texts of the content blocks that have one, in the order of the blocks.
TextsOf(content) ==
    LET sel == SelectSeq(content, LAMBDA b : b.Text # << >>)
    IN  [k \in 1..Len(sel) |-> sel[k].Text]

\* The body decodes into the envelope and a block of it has a text.
Unwraps(body) == body.decodes /\ TextsOf(body.Content) # << >>

\* C30, as the specification states it: Complete returns no error, and its
\* response is the texts of the envelope's blocks joined in order by
\* newlines, or, when the envelope cannot be unwrapped, the raw body as it is.
C30_JoinedOrRawBody ==
    bcall.returned =>
        /\ bcall.out.err = ""
        /\ bcall.out.text = IF Unwraps(bcall.Body)
                            THEN Join(TextsOf(bcall.Body.Content))
                            ELSE bcall.Body.raw

\* C30, as the code has it: Complete returns no error, and its response is
\* the non-empty texts of the envelope's blocks, of whatever type, joined in
\* order by newlines, with the white space at both ends of the result
\* removed; when the body does not decode into the envelope or no block has a
\* text, the response is the raw body with the white space at both ends
\* removed.
C30_TrimmedJoinOrTrimmedBody ==
    bcall.returned =>
        /\ bcall.out.err = ""
        /\ bcall.out.text = IF Unwraps(bcall.Body)
                            THEN TrimSpace(Join(TextsOf(bcall.Body.Content)))
                            ELSE TrimSpace(bcall.Body.raw)

\* Complete has returned for an envelope of two blocks whose texts have white
\* space at the outer ends: the response is the two texts in order with a
\* newline between them and without that white space.
C30_Witness ==
    /\ bcall.returned
    /\ bcall.Body.decodes
    /\ Len(bcall.Body.Content) = 2
    /\ bcall.Body.Content[1].Text = << " ", "a" >>
    /\ bcall.Body.Content[2].Text = << "b", "\n" >>
    /\ bcall.out = [err |-> "", text |-> << "a", "\n", "b" >>]

\* The label an outcome with the error text given is to be counted under.
LabelFor(error) == IF error = "" THEN "success" ELSE "error"

\* The call of worker w to backend i returns in this step.
CallReturns(w, i) ==
    /\ wpc[w] = "wait"
    /\ gpc[w][i] # "done"
    /\ gpc'[w][i] = "done"

\* Worker w collects the evidence of its job in this step.
Collects(w) == wpc[w] = "dequeued" /\ wpc'[w] # "dequeued"

\* The snapshots of list for the query named n that are to be counted under
\* label.
SnapshotsOf(list, n, label) ==
    { k \in 1..Len(list) : list[k].Name = n /\ LabelFor(list[k].Error) = label }

\* C31: the step in which a backend's call returns increments the counter of
\* that backend's name by one under one label, success if and only if the
\* result written for the backend has an empty error, and leaves every other
\* provider count as it is; the result carries the time the call took,
\* whether it failed or not; no other step changes a provider count; and when
\* the fan-out has returned each backend's call has returned once.  The step
\* in which a job's evidence is collected increments, for every query, the
\* count under error by the number of its snapshots with an error and the
\* count under success by the number of those without (one snapshot per
\* query), and no other step changes a query count.
C31_OutcomesCountedOnce ==
    /\ [][/\ \A w \in Workers : \A i \in Backends :
               CallReturns(w, i) =>
                   /\ providerRequestsTotal' =
                          Inc(providerRequestsTotal, cfg.providers[i].Name,
                              LabelFor(results'[w][i].Error))
                   /\ results'[w][i].DurationMS = now - gtime[w][i].start
                   /\ results'[w][i].DurationMS = gtime'[w][i].end - gtime'[w][i].start
          /\ (\A w \in Workers : \A i \in Backends : ~CallReturns(w, i))
                 => providerRequestsTotal' = providerRequestsTotal
          /\ \A w \in Workers :
               Collects(w) =>
                   /\ Len(record'[w].Metrics) = Len(cfg.MetricQueries)
                   /\ \A n \in QueryNames : \A label \in {"success", "error"} :
                        prometheusQueriesTotal'[n][label] =
                            prometheusQueriesTotal[n][label]
                            + Cardinality(SnapshotsOf(record'[w].Metrics, n, label))
          /\ (\A w \in Workers : ~Collects(w))
                 => prometheusQueriesTotal' = prometheusQueriesTotal]_vars
    /\ [](\A w \in Workers :
            FanoutReturned(w) =>
                \A i \in Backends :
                    /\ CallsOf(w, i) = 1
                    /\ record[w].Providers[i].DurationMS =
                           gtime[w][i].end - gtime[w][i].start)

\* A job with two queries and two backends is stored: the first query failed
\* and the second succeeded, the call to the first backend ran into its
\* deadline after one unit and the call to the second answered; each is
\* counted once, under its own label, and the failed call has its duration.
C31_Witness ==
    /\ Len(cfg.providers) = 2
    /\ Len(cfg.MetricQueries) = 2
    /\ Len(items) = 1
    /\ items[1].Metrics[1].Error # "" /\ items[1].Metrics[2].Error = ""
    /\ items[1].Providers[1].Error = "context deadline exceeded"
    /\ items[1].Providers[1].DurationMS = 1
    /\ items[1].Providers[2].Error = ""
    /\ providerRequestsTotal["b1"] = [success |-> 0, error |-> 1]
    /\ providerRequestsTotal["b2"] = [success |-> 1, error |-> 0]
    /\ prometheusQueriesTotal["q1"] = [success |-> 0, error |-> 1]
    /\ prometheusQueriesTotal["q2"] = [success |-> 1, error |-> 0]

\* C32: every structured analysis attached to a stored backend result has a
\* confidence between 0.0 and 1.0 inclusive (0 to 10 tenths).
C32_ConfidenceInRange ==
    \A k \in 1..Len(items) : \A i \in 1..Len(items[k].Providers) :
        items[k].Providers[i].Parsed # NoParsed =>
            /\ items[k].Providers[i].Parsed.Confidence >= 0
            /\ items[k].Providers[i].Parsed.Confidence <= 10

\* No handler is between its send and its increment of the gauge, and no
\* worker between its receive and its decrement.
GaugeSettled ==
    /\ \A r \in Requests : hpc[r] # "queued"
    /\ \A w \in Workers : wpc[w] # "dequeued"

\* C33: the queue-depth gauge is never negative and never above the queue
\* capacity, and whenever no handler and no worker is between its queue
\* operation and its gauge update the gauge equals the number of jobs in the
\* queue.
C33_GaugeWithinCapacity ==
    /\ queueDepthGauge >= 0
    /\ queueDepthGauge <= cfg.JobQueueSize
    /\ GaugeSettled => queueDepthGauge = Len(queue)

\* The submissions of s, the first one the one accepted last: handlers take
\* their select in the order of their numbers.
LatestFirst(s) == \A k, l \in 1..Len(s) : k < l => s[k] > s[l]

C35_DirectHandoff ==
    /\ [](cfg.JobQueueSize = 0 => queue = << >>)
    /\ [][cfg.JobQueueSize = 0 =>
            \A r \in Requests :
                SelectStep(r) =>
                    IF recvq # << >>
                    THEN /\ hpc'[r] = "queued"
                         /\ resp'[r] = 0
                         /\ wjob'[Head(recvq)] = hjob'[r]
                         /\ wpc'[Head(recvq)] = "dequeued"
                         /\ recvq' = Tail(recvq)
                    ELSE /\ hpc'[r] = "done"
                         /\ resp'[r] = 503
                         /\ wjob' = wjob /\ wpc' = wpc]_vars
    /\ [](cfg.JobQueueSize = 0 =>
            \A r \in Requests : hpc[r] = "done" => resp[r] \in {202, 503})

\* Capacity 0 and one worker: the first submission found the worker waiting
\* and was accepted, the second came while the worker was busy with the first
\* and was answered 503; the queue is empty.
C35_Witness ==
    /\ cfg.JobQueueSize = 0
    /\ cfg.WorkerCount = 1
    /\ resp[1] = 202
    /\ resp[2] = 503
    /\ wjob[1].req = 1
    /\ queue = << >>

\* The longest a call through an HTTP client can run: the configured timeout
\* or the client's, whichever is shorter.
Effective == Min(Allowed, ClientTimeout)

\* The call of worker w to backend i ended with an error and no response.
EndedInError(w, i) ==
    /\ results[w][i].Error \in {DeadlineReply.err, ClientTimeoutReply.err}
    /\ results[w][i].Response = ""
    /\ results[w][i].Parsed = NoParsed

\* C36: a call of the openai or the ollama adapter runs no longer than the
\* shorter of the configured timeout and the client's timeout; a call that
\* got no answer until then ends with an error at that time; the error is the
\* one of the client's timeout exactly when the configured timeout is the
\* longer one, and then the call has ended before the configured timeout.
C36_ClientTimeoutBounds ==
    \A w \in Workers :
        FanoutStarted(w) =>
            \A i \in Backends :
                HasClientTimeout(cfg.providers[i]) =>
                    /\ gpc[w][i] = "running" =>
                           now <= gtime[w][i].start + Effective
                    /\ gpc[w][i] = "done" =>
                           /\ gtime[w][i].end <= gtime[w][i].start + Effective
                           /\ gtime[w][i].end = gtime[w][i].start + Effective
                                  <=> EndedInError(w, i)
                           /\ results[w][i].Error = ClientTimeoutReply.err
                                  <=> /\ cfg.LLMTimeout > ClientTimeout
                                      /\ gtime[w][i].end =
                                             gtime[w][i].start + ClientTimeout
                           /\ results[w][i].Error = ClientTimeoutReply.err
                                  => gtime[w][i].end <
                                         gtime[w][i].start + cfg.LLMTimeout

\* The configured timeout is longer than the client's: a call got no answer
\* and ended with the client's error when the client's timeout had passed,
\* before the configured one.
C36_Witness ==
    \E w \in Workers :
        /\ cfg.LLMTimeout = ClientTimeout + 1
        /\ FanoutStarted(w)
        /\ gpc[w][1] = "done"
        /\ results[w][1].Error = ClientTimeoutReply.err
        /\ gtime[w][1].end = gtime[w][1].start + ClientTimeout

\* The events counted so far, all labels together.
EventsOf(m) ==
    m.failureDomainEventsTotal.full + m.failureDomainEventsTotal.lan
        + m.failureDomainEventsTotal.wan

\* The state of the targets before tick k: what tick k - 1 found, up before
\* the first tick.
Before(k) ==
    IF k = 1 THEN [gwUp |-> TRUE, wUp |-> TRUE] ELSE monitor.probes[k - 1]

\* The gateway or the WAN target was up before tick k and is down at it.
WentDown(k) ==
    \/ Before(k).gwUp /\ ~monitor.probes[k].gwUp
    \/ Before(k).wUp /\ ~monitor.probes[k].wUp

\* C37: a tick adds at most one event to the failure-domain counter, and it
\* adds one if and only if the gateway or the WAN target was up at the tick
\* before (up before the first tick) and is down at this one; no count ever
\* goes down.  So the events counted are as many as the ticks at which a
\* target went down, and ticks at which every target stays as it was or
\* recovers add nothing.
C37_OneEventPerTransition ==
    /\ [][LET went == \/ monitor.prevGatewayUp /\ monitor'.gatewayReachable = 0
                      \/ monitor.prevWanUp /\ monitor'.wanReachable = 0
          IN  /\ EventsOf(monitor') = EventsOf(monitor) + (IF went THEN 1 ELSE 0)
              /\ \A d \in {"full", "lan", "wan"} :
                     monitor'.failureDomainEventsTotal[d]
                         >= monitor.failureDomainEventsTotal[d]]_vars
    /\ [](EventsOf(monitor) =
              Cardinality({ k \in 1..Len(monitor.probes) : WentDown(k) }))
    /\ [](/\ monitor.prevGatewayUp =
                 (monitor.probes = << >>
                      \/ monitor.probes[Len(monitor.probes)].gwUp)
          /\ monitor.prevWanUp =
                 (monitor.probes = << >>
                      \/ monitor.probes[Len(monitor.probes)].wUp))

\* The gateway went down at the first tick and stayed down for two more
\* while the WAN target stayed up: one event is counted, under lan.
C37_Witness ==
    /\ Len(monitor.probes) = 3
    /\ \A k \in 1..3 : ~monitor.probes[k].gwUp /\ monitor.probes[k].wUp
    /\ monitor.failureDomainEventsTotal = [full |-> 0, lan |-> 1, wan |-> 0]
    /\ monitor.gatewayReachable = 0

\* C38: the label of a failure-domain event is given by the state after the
\* tick.  It is full if and only if both the gateway and the WAN target are
\* down after the tick, lan if and only if the gateway went down at the tick
\* while the WAN target is up, and wan if and only if the WAN target went
\* down at the tick while the gateway is up.
C38_LabelByStateAfterTick ==
    [][\A d \in {"full", "lan", "wan"} :
         monitor'.failureDomainEventsTotal[d]
             > monitor.failureDomainEventsTotal[d] =>
                 LET gwUp == monitor'.gatewayReachable = 1
                     wUp == monitor'.wanReachable = 1
                     gwWentDown == monitor.prevGatewayUp /\ ~gwUp
                     wanWentDown == monitor.prevWanUp /\ ~wUp
                 IN  /\ d = "full" <=> ~gwUp /\ ~wUp
                     /\ d = "lan" <=> gwWentDown /\ wUp
                     /\ d = "wan" <=> wanWentDown /\ gwUp]_vars

\* The WAN target went down at the first tick (counted under wan) and the
\* gateway joined it at the second: that event is counted under full.
C38_Witness ==
    /\ monitor.probes = << [gwUp |-> TRUE, wUp |-> FALSE],
                           [gwUp |-> FALSE, wUp |-> FALSE] >>
    /\ monitor.failureDomainEventsTotal = [full |-> 1, lan |-> 0, wan |-> 1]

\* The last n elements of s.
LastOf(s, n) == SubSeq(s, Len(s) - n + 1, Len(s))

\* C39: for a Window of capacity c >= 1, after n calls of Add, Len() is
\* min(n, c) and values() is the last min(n, c) samples added, oldest first;
\* and an Add to a full window overwrites the oldest of its samples.
C39_LastSamplesInOrder ==
    /\ [](window # NoWindow =>
            LET n == Len(window.samples)
                c == window.cap
            IN  /\ c >= 1
                /\ WindowLen(window) = Min(n, c)
                /\ values(window) = LastOf(window.samples, Min(n, c))
                /\ Len(values(window)) = WindowLen(window))
    /\ [][window # NoWindow /\ window.count = window.cap
              /\ window'.samples # window.samples =>
            /\ window.data[window.pos] = values(window)[1]
            /\ values(window') =
                   Tail(values(window))
                       \o << window'.samples[Len(window'.samples)] >>]_vars

\* A window of capacity 2 after the samples 1, 2, 3: the first sample was
\* overwritten, the window holds 2 and 3 in that order, and the next write
\* goes to index 1.
C39_Witness ==
    /\ window.cap = 2
    /\ window.samples = << 1, 2, 3 >>
    /\ values(window) = << 2, 3 >>
    /\ WindowLen(window) = 2
    /\ window.pos = 1

=============================================================================
